---- MODULE Spec2Model ----
(***************************************************************************)
(* Sophgo SG2042 platform drivers: the PLL rate solver and control-word    *)
(* codec of the clock driver, and the bitmap allocator of the PCIe MSI     *)
(* controller.                                                             *)
(***************************************************************************)
EXTENDS Integers, Sequences, FiniteSets, TLC

(***************************************************************************)
(* Machine arithmetic.  A u32 that stays below 2^31 is an integer.  A u64  *)
(* (u64, and unsigned long on the 64-bit RISC-V target) is three base-10^6 *)
(* digits <<top, mid, low>>, value top*10^12 + mid*10^6 + low: rates in Hz *)
(* exceed the checker's integers.                                          *)
(***************************************************************************)
\* 2^n
RECURSIVE Pow2(_)
Pow2(n) == IF n = 0 THEN 1 ELSE 2 * Pow2(n - 1)

\* bitwise AND / OR of two naturals, bit by bit
RECURSIVE BitAnd(_, _)
BitAnd(a, b) ==
    IF a = 0 \/ b = 0 THEN 0
    ELSE ((a % 2) * (b % 2)) + 2 * BitAnd(a \div 2, b \div 2)

RECURSIVE BitOr(_, _)
BitOr(a, b) ==
    IF a = 0 THEN b
    ELSE IF b = 0 THEN a
    ELSE (IF (a % 2) + (b % 2) > 0 THEN 1 ELSE 0) + 2 * BitOr(a \div 2, b \div 2)

\* x >> s, and x << s for a u32 whose shifted value stays below 2^31
Shr(x, s) == x \div Pow2(s)
Shl(x, s) == x * Pow2(s)

\* GENMASK(h, l): bits h..l set
GENMASK(h, l) == Pow2(h + 1) - Pow2(l)

KHZ == 1000
MHZ == KHZ * KHZ

\* the u64 of a small integer, and of m MHz + r Hz
u64(n) == <<0, n \div MHZ, n % MHZ>>
Hz(m, r) == <<0, m, r>>

\* ~0ULL = 18446744073709551615
U64_MAX == <<18446744, 73709, 551615>>

u64_lt(a, b) ==
    \/ a[1] < b[1]
    \/ a[1] = b[1] /\ a[2] < b[2]
    \/ a[1] = b[1] /\ a[2] = b[2] /\ a[3] < b[3]

u64_le(a, b) == ~u64_lt(b, a)

\* a - b for a >= b
u64_sub(a, b) ==
    LET l == a[3] - b[3]
        bl == IF l < 0 THEN 1 ELSE 0
        m == a[2] - b[2] - bl
        bm == IF m < 0 THEN 1 ELSE 0
    IN  <<a[1] - b[1] - bm, m + bm * MHZ, l + bl * MHZ>>

\* a * k for a small multiplier k (k < 2048); the products of the solver stay
\* below 2^64
u64_mul(a, k) ==
    LET l == a[3] * k
        m == a[2] * k + (l \div MHZ)
    IN  <<a[1] * k + (m \div MHZ), m % MHZ, l % MHZ>>

\* do_div(a, d) for a non-zero divisor d < 2048: the quotient
u64_div(a, d) ==
    LET m == (a[1] % d) * MHZ + a[2]
        l == (m % d) * MHZ + a[3]
    IN  <<a[1] \div d, m \div d, l \div d>>

\* a / b and a % b for a non-zero u64 divisor b, by shift and subtract
RECURSIVE u64_divmod(_, _)
u64_divmod(a, b) ==
    IF u64_lt(a, b) THEN [q |-> 0, r |-> a]
    ELSE LET h == u64_divmod(a, u64_mul(b, 2))
         IN  IF u64_le(b, h.r) THEN [q |-> 2 * h.q + 1, r |-> u64_sub(h.r, b)]
             ELSE [q |-> 2 * h.q, r |-> h.r]

\* abs_diff(a, b) of linux/math.h
abs_diff(a, b) == IF u64_lt(b, a) THEN u64_sub(a, b) ELSE u64_sub(b, a)

(***************************************************************************)
(* Clock driver constants (src/unnamed/part_002).                          *)
(***************************************************************************)
REFDIV_MIN == 1
REFDIV_MAX == 63
FBDIV_MIN == 16
FBDIV_MAX == 320

PLL_FREF_SG2042 == Hz(25, 0)
PLL_FOUTPOSTDIV_MIN == Hz(16, 0)
PLL_FOUTPOSTDIV_MAX == Hz(3200, 0)
PLL_FOUTVCO_MIN == Hz(800, 0)
PLL_FOUTVCO_MAX == Hz(3200, 0)

EINVAL == 22

\* struct sg2042_pll_ctrl after memset(best, 0, ...)
PllCtrlZero ==
    [freq |-> u64(0), fbdiv |-> 0, postdiv1 |-> 0, postdiv2 |-> 0, refdiv |-> 0]

(***************************************************************************)
(* The PLL control word: sg2042_pll_ctrl_encode / sg2042_pll_ctrl_decode   *)
(* (src/unnamed/part_002) and ENCODE_PLL_CTRL / __mango_pll_recalc_rate    *)
(* of the regmap-based driver (src/drivers/clk/sophgo/clk.c).              *)
(***************************************************************************)
PLLCTRL_FBDIV_SHIFT == 16
PLLCTRL_FBDIV_MASK == Shr(GENMASK(27, 16), PLLCTRL_FBDIV_SHIFT)
PLLCTRL_POSTDIV2_SHIFT == 12
PLLCTRL_POSTDIV2_MASK == Shr(GENMASK(14, 12), PLLCTRL_POSTDIV2_SHIFT)
PLLCTRL_POSTDIV1_SHIFT == 8
PLLCTRL_POSTDIV1_MASK == Shr(GENMASK(10, 8), PLLCTRL_POSTDIV1_SHIFT)
PLLCTRL_REFDIV_SHIFT == 0
PLLCTRL_REFDIV_MASK == Shr(GENMASK(5, 0), PLLCTRL_REFDIV_SHIFT)

sg2042_pll_ctrl_encode(ctrl) ==
    BitOr(BitOr(BitOr(
        Shl(BitAnd(ctrl.fbdiv, PLLCTRL_FBDIV_MASK), PLLCTRL_FBDIV_SHIFT),
        Shl(BitAnd(ctrl.postdiv2, PLLCTRL_POSTDIV2_MASK), PLLCTRL_POSTDIV2_SHIFT)),
        Shl(BitAnd(ctrl.postdiv1, PLLCTRL_POSTDIV1_MASK), PLLCTRL_POSTDIV1_SHIFT)),
        Shl(BitAnd(ctrl.refdiv, PLLCTRL_REFDIV_MASK), PLLCTRL_REFDIV_SHIFT))

\* (variant of the decoder: the two post-divider shifts exchanged)
sg2042_pll_ctrl_decode_swapped(reg_value) ==
    [fbdiv |-> BitAnd(Shr(reg_value, PLLCTRL_FBDIV_SHIFT), PLLCTRL_FBDIV_MASK),
     refdiv |-> BitAnd(Shr(reg_value, PLLCTRL_REFDIV_SHIFT), PLLCTRL_REFDIV_MASK),
     postdiv1 |-> BitAnd(Shr(reg_value, PLLCTRL_POSTDIV2_SHIFT), PLLCTRL_POSTDIV1_MASK),
     postdiv2 |-> BitAnd(Shr(reg_value, PLLCTRL_POSTDIV1_SHIFT), PLLCTRL_POSTDIV2_MASK)]

\* the four fields the decoder assigns (ctrl->freq is left alone)
sg2042_pll_ctrl_decode(reg_value) ==
    [fbdiv |-> BitAnd(Shr(reg_value, PLLCTRL_FBDIV_SHIFT), PLLCTRL_FBDIV_MASK),
     refdiv |-> BitAnd(Shr(reg_value, PLLCTRL_REFDIV_SHIFT), PLLCTRL_REFDIV_MASK),
     postdiv1 |-> BitAnd(Shr(reg_value, PLLCTRL_POSTDIV1_SHIFT), PLLCTRL_POSTDIV1_MASK),
     postdiv2 |-> BitAnd(Shr(reg_value, PLLCTRL_POSTDIV2_SHIFT), PLLCTRL_POSTDIV2_MASK)]

\* search ranges of the regmap-based driver
MANGO_REFDIV_MIN == 1
MANGO_REFDIV_MAX == 64
MANGO_FBDIV_MIN == 16
MANGO_FBDIV_MAX == 321

\* 0xfff, 0x7, 0x3f
ENCODE_PLL_CTRL(fbdiv, p1, p2, refdiv) ==
    BitOr(BitOr(BitOr(
        Shl(BitAnd(fbdiv, 4095), 16),
        Shl(BitAnd(p2, 7), 12)),
        Shl(BitAnd(p1, 7), 8)),
        BitAnd(refdiv, 63))

\* the field extraction at the head of __mango_pll_recalc_rate
mango_pll_recalc_rate_fields(reg_value) ==
    [fbdiv |-> BitAnd(Shr(reg_value, 16), 4095),
     refdiv |-> BitAnd(reg_value, 63),
     postdiv1 |-> BitAnd(Shr(reg_value, 8), 7),
     postdiv2 |-> BitAnd(Shr(reg_value, 12), 7)]

(***************************************************************************)
(* sg2042_pll_get_postdiv_1_2: the post-divider lookup.                    *)
(***************************************************************************)
\* static int postdiv1_2[][3]
postdiv1_2 ==
    << <<2, 4, 8>>,  <<3, 3, 9>>,  <<2, 5, 10>>, <<2, 6, 12>>,
       <<2, 7, 14>>, <<3, 5, 15>>, <<4, 4, 16>>, <<3, 6, 18>>,
       <<4, 5, 20>>, <<3, 7, 21>>, <<4, 6, 24>>, <<5, 5, 25>>,
       <<4, 7, 28>>, <<5, 6, 30>>, <<5, 7, 35>>, <<6, 6, 36>>,
       <<6, 7, 42>>, <<7, 7, 49>> >>

\* the third element of a postdiv1_2 row (C index 2, rows here count from 1)
POSTDIV_RESULT_INDEX == 3

\* (variant of the loop: rows whose product equals tmp0 are passed over too)
RECURSIVE postdiv_search_above(_, _)
postdiv_search_above(tmp0, index) ==
    IF index > Len(postdiv1_2)
    THEN [ret |-> -EINVAL, postdiv1 |-> 0, postdiv2 |-> 0]
    ELSE IF tmp0 >= postdiv1_2[index][POSTDIV_RESULT_INDEX]
    THEN postdiv_search_above(tmp0, index + 1)
    ELSE [ret |-> 0, postdiv1 |-> postdiv1_2[index][2],
                     postdiv2 |-> postdiv1_2[index][1]]

\* the for loop over postdiv1_2 from row index on: the first row whose product
\* is not below tmp0 gives postdiv1 (second column) and postdiv2 (first column)
RECURSIVE postdiv_search(_, _)
postdiv_search(tmp0, index) ==
    IF index > Len(postdiv1_2)
    THEN [ret |-> -EINVAL, postdiv1 |-> 0, postdiv2 |-> 0]
    ELSE IF tmp0 > postdiv1_2[index][POSTDIV_RESULT_INDEX]
    THEN postdiv_search(tmp0, index + 1)
    ELSE [ret |-> 0, postdiv1 |-> postdiv1_2[index][2],
                     postdiv2 |-> postdiv1_2[index][1]]

\* (variant of the lookup: the table is searched from tmp0 = 7 on)
sg2042_pll_get_postdiv_1_2_below_7(rate, prate, fbdiv, refdiv) ==
    LET tmp0 == u64_divmod(u64_mul(u64_div(prate, refdiv), fbdiv), rate).q
    IN  IF tmp0 < 7
        THEN [ret |-> 0, postdiv1 |-> tmp0, postdiv2 |-> 1]
        ELSE postdiv_search(tmp0, 1)

\* tmp0 = ((prate / refdiv) * fbdiv) / rate
sg2042_pll_get_postdiv_1_2(rate, prate, fbdiv, refdiv) ==
    LET tmp0 == u64_divmod(u64_mul(u64_div(prate, refdiv), fbdiv), rate).q
    IN  IF tmp0 <= 7
        THEN [ret |-> 0, postdiv1 |-> tmp0, postdiv2 |-> 1]
        ELSE postdiv_search(tmp0, 1)

(***************************************************************************)
(* sg2042_get_pll_ctl_setting: the exhaustive search.                      *)
(***************************************************************************)
\* What do_div(tmp, 0) does: the C division by zero is undefined; a RISC-V
\* divu yields all ones, other builds raise a divide fault.
DivZeroOutcomes == {"allones", "trap"}

\* "if (tmp <= 10) continue;" negated: this refdiv is searched
pll_refdiv_ok(parent_rate, refdiv) ==
    ~u64_le(u64_div(parent_rate, refdiv), u64(10))

\* (variants of the range check: the upper bound only, and no fbdiv passing)
pll_vco_ok_max_only(foutvco) == ~u64_lt(PLL_FOUTVCO_MAX, foutvco)

pll_vco_ok_never(foutvco) == FALSE

\* "if (foutvco < PLL_FOUTVCO_MIN || foutvco > PLL_FOUTVCO_MAX) continue;"
\* negated: this fbdiv is looked up
pll_vco_ok(foutvco) ==
    ~(u64_lt(foutvco, PLL_FOUTVCO_MIN) \/ u64_lt(PLL_FOUTVCO_MAX, foutvco))

\* (variant of the comparison: against the empty best, not the running best)
pll_closer_than_nothing(foutpostdiv, best_freq, req_rate) ==
    u64_lt(abs_diff(foutpostdiv, req_rate), abs_diff(u64(0), req_rate))

\* (variant of the comparison: a candidate as close as the best replaces it)
pll_closer_or_equal(foutpostdiv, best_freq, req_rate) ==
    u64_le(abs_diff(foutpostdiv, req_rate), abs_diff(best_freq, req_rate))

\* "if (abs_diff(foutpostdiv, req_rate) < abs_diff(best->freq, req_rate))"
pll_closer(foutpostdiv, best_freq, req_rate) ==
    u64_lt(abs_diff(foutpostdiv, req_rate), abs_diff(best_freq, req_rate))

\* (variant of the test: the search never returns from inside the loops)
pll_early_return_never(foutpostdiv, req_rate) == FALSE

\* "if (foutpostdiv == req_rate) return 0;"
pll_early_return(foutpostdiv, req_rate) == foutpostdiv = req_rate

\* One pass of the inner loop body, for one (refdiv, fbdiv).  exit is "loop"
\* when the loop goes on, "return" on the early "return 0", "oops" when
\* do_div raised a divide fault.
pll_fbdiv_body(best, req_rate, parent_rate, refdiv, fbdiv, dz) ==
    LET foutvco == u64_div(u64_mul(parent_rate, fbdiv), refdiv)
    IN  IF ~pll_vco_ok(foutvco)
        THEN [best |-> best, exit |-> "loop"]
        ELSE
        LET pd == sg2042_pll_get_postdiv_1_2(req_rate, parent_rate, fbdiv, refdiv)
            divisor == pd.postdiv1 * pd.postdiv2
        IN  IF pd.ret # 0
            THEN [best |-> best, exit |-> "loop"]
            ELSE IF divisor = 0 /\ dz = "trap"
            THEN [best |-> best, exit |-> "oops"]
            ELSE
            LET foutpostdiv == IF divisor = 0 THEN U64_MAX
                               ELSE u64_div(foutvco, divisor)
            IN  IF pll_closer(foutpostdiv, best.freq, req_rate)
                THEN [best |-> [freq |-> foutpostdiv, refdiv |-> refdiv,
                                fbdiv |-> fbdiv, postdiv1 |-> pd.postdiv1,
                                postdiv2 |-> pd.postdiv2],
                      exit |-> IF pll_early_return(foutpostdiv, req_rate)
                               THEN "return" ELSE "loop"]
                ELSE [best |-> best, exit |-> "loop"]

\* The inner for loop over fbdiv = lo .. hi in ascending order (the range is
\* halved to keep the evaluation shallow; the passes run in the loop's order).
RECURSIVE pll_fbdiv_loop(_, _, _, _, _, _, _)
pll_fbdiv_loop(best, req_rate, parent_rate, refdiv, lo, hi, dz) ==
    IF lo = hi
    THEN pll_fbdiv_body(best, req_rate, parent_rate, refdiv, lo, dz)
    ELSE LET mid == (lo + hi) \div 2
             l == pll_fbdiv_loop(best, req_rate, parent_rate, refdiv, lo, mid, dz)
         IN  IF l.exit # "loop" THEN l
             ELSE pll_fbdiv_loop(l.best, req_rate, parent_rate, refdiv,
                                 mid + 1, hi, dz)

\* One pass of the outer loop body, for one refdiv.
pll_refdiv_body(best, req_rate, parent_rate, refdiv, dz) ==
    IF ~pll_refdiv_ok(parent_rate, refdiv)
    THEN [best |-> best, exit |-> "loop"]
    ELSE pll_fbdiv_loop(best, req_rate, parent_rate, refdiv,
                        FBDIV_MIN, FBDIV_MAX, dz)

\* The outer for loop over refdiv = lo .. hi in ascending order.
RECURSIVE pll_refdiv_loop(_, _, _, _, _, _)
pll_refdiv_loop(best, req_rate, parent_rate, lo, hi, dz) ==
    IF lo = hi
    THEN pll_refdiv_body(best, req_rate, parent_rate, lo, dz)
    ELSE LET mid == (lo + hi) \div 2
             l == pll_refdiv_loop(best, req_rate, parent_rate, lo, mid, dz)
         IN  IF l.exit # "loop" THEN l
             ELSE pll_refdiv_loop(l.best, req_rate, parent_rate, mid + 1, hi, dz)

\* ret: 0 or -EINVAL; oops: the call raised a divide fault and never returned
sg2042_get_pll_ctl_setting(req_rate, parent_rate, dz) ==
    IF parent_rate # PLL_FREF_SG2042
    THEN [ret |-> -EINVAL, best |-> PllCtrlZero, oops |-> FALSE, early |-> FALSE]
    ELSE IF u64_lt(req_rate, PLL_FOUTPOSTDIV_MIN)
            \/ u64_lt(PLL_FOUTPOSTDIV_MAX, req_rate)
    THEN [ret |-> -EINVAL, best |-> PllCtrlZero, oops |-> FALSE, early |-> FALSE]
    ELSE
    LET r == pll_refdiv_loop(PllCtrlZero, req_rate, parent_rate,
                             REFDIV_MIN, REFDIV_MAX, dz)
    IN  IF r.exit = "oops"
        THEN [ret |-> 0, best |-> r.best, oops |-> TRUE, early |-> FALSE]
        ELSE IF r.exit = "return"
        THEN [ret |-> 0, best |-> r.best, oops |-> FALSE, early |-> TRUE]
        ELSE IF r.best.freq = u64(0)
        THEN [ret |-> -EINVAL, best |-> r.best, oops |-> FALSE, early |-> FALSE]
        ELSE [ret |-> 0, best |-> r.best, oops |-> FALSE, early |-> FALSE]

(***************************************************************************)
(* PLL rate change (src/unnamed/part_002): sg2042_clk_pll_set_rate and      *)
(* sg2042_pll_enable.  A register of single-bit flags is the set of the    *)
(* positions of its set bits.                                              *)
(***************************************************************************)
\* the _shift of the four PLLs of sg2042_pll_clks: MPLL, FPLL, DPLL0, DPLL1;
\* all four use R_PLL_STAT and R_PLL_CLKEN_CONTROL, and only MPLL has the
\* ops with .set_rate
MPLL_SHIFT == 0
PllShifts == {0, 3, 4, 5}
shift_enable(shift) == shift
shift_status_updating(shift) == shift
shift_status_lock(shift) == 8 + shift

\* value & (~(1 << pll->shift_enable)) and value | (1 << pll->shift_enable)
pll_enable_cleared(value, shift) == value \ {shift_enable(shift)}
pll_enable_set(value, shift) == value \cup {shift_enable(shift)}

\* the conditions of the two readl_poll_timeout_atomic calls
pll_poll_locked(status, shift) == shift_status_lock(shift) \in status
pll_poll_updated(status, shift) == shift_status_updating(shift) \notin status

\* (variant of the rate change's locking: the lock is not waited for)
clk_lock_acquired_unchecked(lock) == TRUE

\* spin_lock_irqsave(pll->lock, flags): the CPU spins until the lock is free
\* (0: no holder)
clk_lock_acquired(lock) == lock = 0

\* (variant of the failure path: "goto out", past the re-enable)
set_rate_goto_out(ret) == IF ret # 0 THEN "unlock" ELSE "ctrl_write"

\* (variant of the failure path: no goto, on to the register write)
set_rate_goto_none(ret) == "ctrl_write"

\* (variant of sg2042_pll_enable: the en branch goes to the enable write
\* without the two polls)
pll_enable_entry_no_poll(en) == IF en THEN "enable_read" ELSE "disable_read"

\* "if (en) { ... } else { ... }": the first statement of sg2042_pll_enable,
\* the two polls being in the en branch only
pll_enable_entry(en) == IF en THEN "poll_lock" ELSE "disable_read"

\* "if (ret) { ...; goto out2; }": where sg2042_clk_pll_set_rate continues
\* after the solver returned ret; out2 is sg2042_pll_enable(pll, 1)
set_rate_goto(ret) == IF ret # 0 THEN pll_enable_entry(TRUE) ELSE "ctrl_write"

(***************************************************************************)
(* PCIe MSI controller (src/unnamed/part_004): the hardware-IRQ bitmap.    *)
(* A bitmap is the set of the indices of its set bits.                     *)
(***************************************************************************)
MAX_MSI_IRQS == 512
MSI_DEF_NUM_VECTORS == 512

ENOMEM == 12
ENOSPC == 28

\* pcie->num_vectors, set once by sg2042_pcie_setup_msi
num_vectors == MSI_DEF_NUM_VECTORS

\* ilog2(n) and order_base_2(n) of linux/log2.h
RECURSIVE ilog2(_)
ilog2(n) == IF n <= 1 THEN 0 ELSE 1 + ilog2(n \div 2)

order_base_2(n) == IF n > 1 THEN ilog2(n - 1) + 1 ELSE 0

\* the bits pos .. pos + 2^order - 1 of a region
BitmapRegion(pos, order) == pos .. (pos + Pow2(order) - 1)

\* the scan of bitmap_find_free_region: pos = 0, 2^order, 2 * 2^order, ...
\* while pos + 2^order <= bits; the first pos whose region has no bit set, or
\* -ENOMEM
bitmap_scan_free_region(bitmap, bits, order) ==
    LET size == Pow2(order)
        free == {pos \in {k * size : k \in 0..((bits \div size) - 1)} :
                    \A i \in BitmapRegion(pos, order) : i \notin bitmap}
    IN  IF free = {} THEN -ENOMEM
        ELSE CHOOSE pos \in free : \A q \in free : pos <= q

\* the region's bits set (__reg_op REG_OP_ALLOC)
bitmap_set_region(bitmap, pos, order) == bitmap \cup BitmapRegion(pos, order)

\* bitmap_find_free_region of lib/bitmap.c: the position found and the bitmap
\* with the region marked, or -ENOMEM and the bitmap as it was
bitmap_find_free_region(bitmap, bits, order) ==
    LET pos == bitmap_scan_free_region(bitmap, bits, order)
    IN  IF pos < 0 THEN [ret |-> pos, bitmap |-> bitmap]
        ELSE [ret |-> pos, bitmap |-> bitmap_set_region(bitmap, pos, order)]

\* bitmap_release_region of lib/bitmap.c
bitmap_release_region(bitmap, pos, order) == bitmap \ BitmapRegion(pos, order)

\* irq_domain_set_info for virq + i -> bit + i, i < nr_irqs: the hwirq of each
\* virq's irq_data
irq_domain_set_info_range(irq_data, virq, bit, nr_irqs) ==
    [v \in (DOMAIN irq_data) \cup (virq..(virq + nr_irqs - 1)) |->
        IF v \in virq..(virq + nr_irqs - 1) THEN bit + (v - virq)
        ELSE irq_data[v]]

\* (variant of the handler: the vector count passed where the order belongs)
sg2042_pcie_irq_domain_alloc_count_as_order(in_use, irq_data, virq, nr_irqs) ==
    LET r == bitmap_find_free_region(in_use, num_vectors, nr_irqs - 1)
    IN  IF r.ret < 0
        THEN [ret |-> -ENOSPC, bit |-> r.ret, in_use |-> r.bitmap,
              irq_data |-> irq_data]
        ELSE [ret |-> 0, bit |-> r.ret, in_use |-> r.bitmap,
              irq_data |-> irq_domain_set_info_range(irq_data, virq, r.ret, nr_irqs)]

\* (variant of the handler: the "if (bit < 0)" check left out)
sg2042_pcie_irq_domain_alloc_unchecked(in_use, irq_data, virq, nr_irqs) ==
    LET r == bitmap_find_free_region(in_use, num_vectors, order_base_2(nr_irqs))
    IN  [ret |-> 0, bit |-> r.ret, in_use |-> r.bitmap,
         irq_data |-> irq_domain_set_info_range(irq_data, virq, r.ret, nr_irqs)]

\* sg2042_pcie_irq_domain_alloc: its return value, the bit found, and
\* pcie->msi_irq_in_use and the domain's irq_data after the call
sg2042_pcie_irq_domain_alloc(in_use, irq_data, virq, nr_irqs) ==
    LET r == bitmap_find_free_region(in_use, num_vectors, order_base_2(nr_irqs))
    IN  IF r.ret < 0
        THEN [ret |-> -ENOSPC, bit |-> r.ret, in_use |-> r.bitmap,
              irq_data |-> irq_data]
        ELSE [ret |-> 0, bit |-> r.ret, in_use |-> r.bitmap,
              irq_data |-> irq_domain_set_info_range(irq_data, virq, r.ret, nr_irqs)]

\* (variant of the handler: the region released with order 0)
sg2042_pcie_irq_domain_free_one_bit(in_use, irq_data, virq, nr_irqs) ==
    bitmap_release_region(in_use, irq_data[virq], 0)

\* sg2042_pcie_irq_domain_free: pcie->msi_irq_in_use after the call; d->hwirq
\* is the hwirq of virq's irq_data
sg2042_pcie_irq_domain_free(in_use, irq_data, virq, nr_irqs) ==
    bitmap_release_region(in_use, irq_data[virq], order_base_2(nr_irqs))

\* the IRQ core after the domain's free callback: the irq_data of
\* virq .. virq + nr_irqs - 1 are gone
irq_domain_free_irq_data(irq_data, virq, nr_irqs) ==
    [v \in (DOMAIN irq_data) \ (virq..(virq + nr_irqs - 1)) |-> irq_data[v]]

\* the IRQ core's choice of virq for an allocation of nr_irqs: the lowest
\* run of descriptors not in use
irq_domain_alloc_descs(used, nr_irqs) ==
    LET starts == {1} \cup {v + 1 : v \in used}
        fits == {v \in starts : (v..(v + nr_irqs - 1)) \cap used = {}}
    IN  CHOOSE v \in fits : \A w \in fits : v <= w

\* the PCI core tearing the vectors virq .. virq + nr_irqs - 1 down before the
\* domain's free callback: the device no longer holds their messages
msi_teardown_msgs(msgs, irq_data, virq, nr_irqs) ==
    LET gone == {irq_data[v] : v \in virq..(virq + nr_irqs - 1)}
    IN  [h \in (DOMAIN msgs) \ gone |-> msgs[h]]

\* (variant of the allocation's locking: the lock is not waited for)
alloc_lock_acquired_unchecked(lock) == TRUE

\* raw_spin_lock_irqsave(&pcie->lock, flags) in sg2042_pcie_irq_domain_alloc
\* and in sg2042_pcie_irq_domain_free: the CPU spins until the lock is free
\* (0: no holder)
alloc_lock_acquired(lock) == lock = 0

free_lock_acquired(lock) == lock = 0

(***************************************************************************)
(* PCIe MSI controller: the message of a vector.  A 32-bit address half is *)
(* <<page, offset>> with value page * 4096 + offset; pcie->msi_data is     *)
(* [hi, lo]: its upper and lower 32 bits.                                  *)
(***************************************************************************)
BYTE_NUM_PER_MSI_VEC == 4
MSI_PAGE_BYTES == 2048
PAGE_SIZE == 4096
Pages32 == 1048576

upper_32_bits(addr) == addr.hi
lower_32_bits(addr) == addr.lo

\* u32 addition lo + n: the carry out of bit 31 is dropped
u32_add(lo, n) ==
    LET total == lo[2] + n
    IN  <<(lo[1] + total \div PAGE_SIZE) % Pages32, total % PAGE_SIZE>>

\* (variant of the message: the byte stride of a vector left out)
sg2042_pcie_setup_msi_msg_no_stride(msi_data, hwirq) ==
    [address_lo |-> u32_add(lower_32_bits(msi_data), hwirq),
     address_hi |-> upper_32_bits(msi_data),
     data |-> 1,
     num_applied_vecs |-> hwirq]

\* sg2042_pcie_setup_msi_msg: *msg, and pcie->num_applied_vecs after the call
sg2042_pcie_setup_msi_msg(msi_data, hwirq) ==
    [address_lo |-> u32_add(lower_32_bits(msi_data), BYTE_NUM_PER_MSI_VEC * hwirq),
     address_hi |-> upper_32_bits(msi_data),
     data |-> 1,
     num_applied_vecs |-> hwirq]

(***************************************************************************)
(* PCIe MSI controller: sg2042_pcie_handle_msi_irq, statement by statement. *)
(***************************************************************************)
MAX_MSI_IRQS_PER_CTRL == 1

\* readl of entry i of the shared region
msi_page_readl(page, i) == IF i \in DOMAIN page THEN page[i] ELSE 0

\* writel(0, ...) to entry i of the shared region
msi_page_writel_zero(page, i) == [j \in (DOMAIN page) \ {i} |-> page[j]]

\* irq_find_mapping(pcie->irq_domain, hwirq): the virq mapped to hwirq, 0
\* when there is none
irq_find_mapping(irq_data, hwirq) ==
    IF \E v \in DOMAIN irq_data : irq_data[v] = hwirq
    THEN CHOOSE v \in DOMAIN irq_data : irq_data[v] = hwirq
    ELSE 0

\* the positions the "while ((pos = find_next_bit(&val,
\* MAX_MSI_IRQS_PER_CTRL, pos)) != MAX_MSI_IRQS_PER_CTRL)" loop visits: the
\* set bits of status below MAX_MSI_IRQS_PER_CTRL
msi_status_bits(status) ==
    {pos \in 0..(MAX_MSI_IRQS_PER_CTRL - 1) : BitAnd(Shr(status, pos), 1) = 1}

\* (variant of the second pass's condition: it always runs)
msi_fallback_needed_always(ret) == TRUE

\* (variant of the fallback pass: it is never entered)
msi_fallback_needed_never(ret) == FALSE

\* "if (ret == IRQ_NONE)": the first pass found every entry zero
msi_fallback_needed(ret) == ret = "IRQ_NONE"

(***************************************************************************)
(* Top interrupt controller (src/drivers/irqchip/irq-sg2042-msi.c): the    *)
(* slot bitmap, the reverse table tic_to_plic and the chained handler.     *)
(***************************************************************************)
MAX_IRQ_NUMBER == 32

\* the slots of the arrays of struct top_intc_data
TicSlots == 0..(MAX_IRQ_NUMBER - 1)

\* data->plic_hwirqs after probe: the PLIC hwirqs of "msi0", "msi1", ... are
\* contiguous from base, and the entries from irq_num on keep the 0 of
\* kzalloc
probe_plic_hwirqs(base, irq_num) ==
    [i \in TicSlots |-> IF i < irq_num THEN base + i ELSE 0]

\* data->tic_to_plic after probe: the 0 of kzalloc in every entry
probe_tic_to_plic == [i \in TicSlots |-> 0]

\* (variant of the loop: the reverse table is left as it was)
tic_to_plic_fill_skipped(tic_to_plic, plic_hwirqs, hwirq, nr_irqs) ==
    tic_to_plic

\* the loop of top_intc_domain_alloc over i < nr_irqs:
\* "data->tic_to_plic[hwirq + i] = data->plic_hwirqs[hwirq + i]"
tic_to_plic_fill(tic_to_plic, plic_hwirqs, hwirq, nr_irqs) ==
    [s \in TicSlots |->
        IF s \in hwirq..(hwirq + nr_irqs - 1) THEN plic_hwirqs[s]
        ELSE tic_to_plic[s]]

\* top_intc_domain_alloc: its return value, the slot found, and
\* data->irq_bitmap, the domain's irq_data and data->tic_to_plic after the
\* call
top_intc_domain_alloc(data, irq_data, virq, nr_irqs) ==
    LET r == bitmap_find_free_region(data.irq_bitmap, data.irq_num,
                                     order_base_2(nr_irqs))
    IN  IF r.ret < 0
        THEN [ret |-> -ENOSPC, hwirq |-> r.ret, irq_bitmap |-> r.bitmap,
              irq_data |-> irq_data, tic_to_plic |-> data.tic_to_plic]
        ELSE [ret |-> 0, hwirq |-> r.ret, irq_bitmap |-> r.bitmap,
              irq_data |-> irq_domain_set_info_range(irq_data, virq, r.ret, nr_irqs),
              tic_to_plic |-> tic_to_plic_fill(data.tic_to_plic, data.plic_hwirqs,
                                               r.ret, nr_irqs)]

\* top_intc_domain_free: data->irq_bitmap after the call; nothing else of
\* *data is written
top_intc_domain_free(data, irq_data, virq, nr_irqs) ==
    bitmap_release_region(data.irq_bitmap, irq_data[virq], order_base_2(nr_irqs))

\* the "for (i = 0; i < data->irq_num; i++) if (data->tic_to_plic[i] ==
\* plic_hwirq) break;" loop: i after it
tic_to_plic_scan(data, plic_hwirq) ==
    LET hits == {i \in 0..(data.irq_num - 1) : data.tic_to_plic[i] = plic_hwirq}
    IN  IF hits = {} THEN data.irq_num
        ELSE CHOOSE i \in hits : \A j \in hits : i <= j

\* top_intc_ack_irq, called by handle_edge_irq for the virtual IRQ raised:
\* the bit of reg_clr it writes, with reg_bitwidth 32
top_intc_ack_irq(hwirq) == hwirq - 32 * (hwirq \div 32)

\* top_intc_irq_handler for the physical interrupt plic_hwirq: i after the
\* loop, the virtual IRQ passed to generic_handle_irq (0: none), the bit of
\* reg_clr the handler itself writes and the bit the raised IRQ's ack writes
\* (-1: no write)
top_intc_irq_handler(data, irq_data, plic_hwirq) ==
    LET i == tic_to_plic_scan(data, plic_hwirq)
        top_intc_irq == irq_find_mapping(irq_data, i)
    IN  IF i < data.irq_num
        THEN [plic_hwirq |-> plic_hwirq, i |-> i,
              raised |-> top_intc_irq,
              clr |-> -1,
              ack |-> IF top_intc_irq # 0 THEN top_intc_ack_irq(i) ELSE -1]
        ELSE [plic_hwirq |-> plic_hwirq, i |-> i,
              raised |-> 0,
              clr |-> plic_hwirq - data.plic_hwirqs[0],
              ack |-> -1]

(***************************************************************************)
(* Mux clocks (src/unnamed/part_002 and part_001): the parent switch       *)
(* around a rate change.  R_CLKSELREG0 is kept as the set of its set bits. *)
(***************************************************************************)
\* sg2042_mux_table = {1, 0}: the register value of parent index i
sg2042_mux_table(index) == IF index = 0 THEN 1 ELSE 0

\* the "Clock Select" field of width 1 at shift
mux_field(reg, shift) == IF shift \in reg THEN 1 ELSE 0

\* clk_mux_ops.get_parent with sg2042_mux_table: the index whose table value
\* is the field's value
clk_mux_get_parent(reg, shift) ==
    CHOOSE index \in {0, 1} : sg2042_mux_table(index) = mux_field(reg, shift)

\* clk_mux_ops.set_parent with sg2042_mux_table: the register after the
\* read-modify-write of the field
clk_mux_set_parent(reg, shift, index) ==
    IF sg2042_mux_table(index) = 1 THEN reg \cup {shift} ELSE reg \ {shift}

\* (variant of the callback: POST_RATE_CHANGE selects the safe parent again)
sg2042_mux_notifier_cb_no_restore(drv, event, reg, original_index, shift) ==
    IF event = "PRE_RATE_CHANGE"
    THEN [original_index |-> clk_mux_get_parent(reg, shift),
          reg |-> clk_mux_set_parent(reg, shift, 1)]
    ELSE [original_index |-> original_index,
          reg |-> clk_mux_set_parent(reg, shift, 1)]

\* sg2042_mux_notifier_cb of either file for the mux at shift:
\* mux->original_index and the register after it.  part_001 calls
\* set_parent(hw, 1) whatever the parent is, part_002 only when it is 0
sg2042_mux_notifier_cb(drv, event, reg, original_index, shift) ==
    IF event = "PRE_RATE_CHANGE"
    THEN LET index == clk_mux_get_parent(reg, shift)
         IN  [original_index |-> index,
              reg |-> IF drv = "part_001" \/ index = 0
                      THEN clk_mux_set_parent(reg, shift, 1)
                      ELSE reg]
    ELSE IF event = "POST_RATE_CHANGE"
    THEN [original_index |-> original_index,
          reg |-> clk_mux_set_parent(reg, shift, original_index)]
    ELSE [original_index |-> original_index, reg |-> reg]

(***************************************************************************)
(* The chained MSI interrupt service routine (src/unnamed/part_004) and    *)
(* the two registers of the syscon it uses, each kept as the set of its    *)
(* set bits.                                                               *)
(***************************************************************************)
CDNS_PCIE_IRS_REG0804_CLR_LINK0_MSI_IN_BIT == 2
CDNS_PCIE_IRS_REG0804_CLR_LINK1_MSI_IN_BIT == 3
CDNS_PCIE_IRS_REG0810_ST_LINK0_MSI_IN_BIT == 2
CDNS_PCIE_IRS_REG0810_ST_LINK1_MSI_IN_BIT == 3

\* "if (pcie->link_id == 1) ... else ...": the status bit and the clear bit
\* of the controller with link_id
st_msi_in_bit(link_id) ==
    IF link_id = 1 THEN CDNS_PCIE_IRS_REG0810_ST_LINK1_MSI_IN_BIT
    ELSE CDNS_PCIE_IRS_REG0810_ST_LINK0_MSI_IN_BIT

clr_msi_in_bit(link_id) ==
    IF link_id = 1 THEN CDNS_PCIE_IRS_REG0804_CLR_LINK1_MSI_IN_BIT
    ELSE CDNS_PCIE_IRS_REG0804_CLR_LINK0_MSI_IN_BIT

\* (variant of the test: any bit of the status register counts)
msi_in_pending_any(status, link_id) == status # {}

\* "(status >> st_msi_in_bit) & 0x1"
msi_in_pending(status, link_id) == st_msi_in_bit(link_id) \in status

\* "status |= ((u32)0x1 << clr_msi_in_bit)" and
\* "status &= ~((u32)0x1 << clr_msi_in_bit)"
msi_in_clr_set(status, link_id) == status \cup {clr_msi_in_bit(link_id)}
msi_in_clr_cleared(status, link_id) == status \ {clr_msi_in_bit(link_id)}

(***************************************************************************)
(* The regmap-based PLL driver (src/drivers/clk/sophgo/clk.c):             *)
(* __pll_get_postdiv_1_2, __get_pll_ctl_setting and the bits of            *)
(* mango_pll_enable.  The search ranges and the frequency limits are those *)
(* the file defines (MANGO_REFDIV_MIN .. MANGO_FBDIV_MAX above).           *)
(***************************************************************************)
ESPIPE == 29
\* the id of mpll_clock
MPLL_CLK == 0
\* PLL_FREQ_MIN and PLL_FREQ_MAX
MANGO_PLL_FREQ_MIN == Hz(16, 0)
MANGO_PLL_FREQ_MAX == Hz(3200, 0)
\* 2^32: "unsigned int" arithmetic is modulo this
U32_MODULUS == <<0, 4294, 967296>>

\* struct mango_pll_ctrl after memset(&pctrl_table, 0, ...)
MangoCtrlZero == PllCtrlZero

\* tmp0 = ((prate / refdiv) * fbdiv) / rate in u64; -ESPIPE when the product
\* is past the last row of postdiv1_2
mango_pll_get_postdiv_1_2(rate, prate, fbdiv, refdiv) ==
    LET tmp0 == u64_divmod(u64_mul(u64_div(prate, refdiv), fbdiv), rate).q
    IN  IF tmp0 <= 7
        THEN [ret |-> 0, postdiv1 |-> tmp0, postdiv2 |-> 1]
        ELSE LET s == postdiv_search(tmp0, 1)
             IN  [s EXCEPT !.ret = IF @ # 0 THEN -ESPIPE ELSE 0]

\* foutvco = fref * fbdiv / refdiv with the three operands "unsigned int":
\* the product is taken modulo 2^32 before the division
mango_foutvco(fref, fbdiv, refdiv) ==
    u64_div(u64_divmod(u64_mul(fref, fbdiv), U32_MODULUS).r, refdiv)

\* One pass of the inner loop body of __get_pll_ctl_setting.  exit is "loop"
\* when the loop goes on, "return" on the early "return 0", "oops" when the
\* division by postdiv1 * postdiv2 = 0 raised a divide fault.
mango_fbdiv_body(best, req_rate, fref, refdiv, fbdiv, dz) ==
    LET foutvco == mango_foutvco(fref, fbdiv, refdiv)
    IN  IF \/ u64_lt(foutvco, MANGO_PLL_FREQ_MIN)
           \/ u64_lt(MANGO_PLL_FREQ_MAX, foutvco)
           \/ u64_lt(u64_div(fref, refdiv), u64(10))
        THEN [best |-> best, exit |-> "loop"]
        ELSE
        LET pd == mango_pll_get_postdiv_1_2(req_rate, fref, fbdiv, refdiv)
            divisor == pd.postdiv1 * pd.postdiv2
        IN  IF pd.ret # 0
            THEN [best |-> best, exit |-> "loop"]
            ELSE IF divisor = 0 /\ dz = "trap"
            THEN [best |-> best, exit |-> "oops"]
            ELSE
            LET tmp == IF divisor = 0 THEN U64_MAX
                       ELSE u64_div(foutvco, divisor)
            IN  IF u64_lt(abs_diff(tmp, req_rate), abs_diff(best.freq, req_rate))
                THEN [best |-> [freq |-> tmp, refdiv |-> refdiv,
                                fbdiv |-> fbdiv, postdiv1 |-> pd.postdiv1,
                                postdiv2 |-> pd.postdiv2],
                      exit |-> IF tmp = req_rate THEN "return" ELSE "loop"]
                ELSE [best |-> best, exit |-> "loop"]

\* The inner for loop over fbdiv = lo .. hi in ascending order (the range is
\* halved to keep the evaluation shallow; the passes run in the loop's order).
RECURSIVE mango_fbdiv_loop(_, _, _, _, _, _, _)
mango_fbdiv_loop(best, req_rate, fref, refdiv, lo, hi, dz) ==
    IF lo = hi
    THEN mango_fbdiv_body(best, req_rate, fref, refdiv, lo, dz)
    ELSE LET mid == (lo + hi) \div 2
             l == mango_fbdiv_loop(best, req_rate, fref, refdiv, lo, mid, dz)
         IN  IF l.exit # "loop" THEN l
             ELSE mango_fbdiv_loop(l.best, req_rate, fref, refdiv,
                                   mid + 1, hi, dz)

\* The outer for loop over refdiv = lo .. hi in ascending order.
RECURSIVE mango_refdiv_loop(_, _, _, _, _, _)
mango_refdiv_loop(best, req_rate, fref, lo, hi, dz) ==
    IF lo = hi
    THEN mango_fbdiv_loop(best, req_rate, fref, lo,
                          MANGO_FBDIV_MIN, MANGO_FBDIV_MAX, dz)
    ELSE LET mid == (lo + hi) \div 2
             l == mango_refdiv_loop(best, req_rate, fref, lo, mid, dz)
         IN  IF l.exit # "loop" THEN l
             ELSE mango_refdiv_loop(l.best, req_rate, fref, mid + 1, hi, dz)

\* __get_pll_ctl_setting(best, req_rate, parent_rate): it returns 0 whatever
\* it found; oops: the call raised a divide fault and never returned
mango_get_pll_ctl_setting(req_rate, parent_rate, dz) ==
    LET r == mango_refdiv_loop(MangoCtrlZero, req_rate, parent_rate,
                               MANGO_REFDIV_MIN, MANGO_REFDIV_MAX, dz)
    IN  [ret |-> 0, best |-> r.best, oops |-> r.exit = "oops"]

\* TOP_PLL_CTRL(fbdiv, p1, p2, refdiv): the control word, in the layout of
\* ENCODE_PLL_CTRL
TOP_PLL_CTRL(fbdiv, p1, p2, refdiv) == ENCODE_PLL_CTRL(fbdiv, p1, p2, refdiv)

\* the bits of PLL number id in the status register: updating at id, lock at
\* PLL_STAT_LOCK_OFFSET + id
PLL_STAT_LOCK_OFFSET == 8
mango_status_lock(value, id) == (PLL_STAT_LOCK_OFFSET + id) \in value
mango_status_updating(value, id) == id \in value

\* "while (!((value >> (PLL_STAT_LOCK_OFFSET + id)) & 0x1)) { ... }": where
\* mango_pll_enable goes from the test at the head of the first loop; the
\* loop body is left by nothing but this test
mango_lock_loop(value, id) ==
    IF ~mango_status_lock(value, id) THEN "lock_body" ELSE "updating_read"

\* "while (((value >> id) & 0x1)) { ... }": the same for the second loop
mango_updating_loop(value, id) ==
    IF mango_status_updating(value, id) THEN "updating_body" ELSE "enable_read"

\* "if (!pctrl_table.freq) { ...; goto out; }"
mango_set_rate_goto(pctrl_table) ==
    IF pctrl_table.freq = u64(0) THEN "unlock" ELSE "ctrl_write"

(***************************************************************************)
(* sg2042_clk_divider_set_rate (src/unnamed/part_002): the three values    *)
(* written to the divider's control register.  The register is the set of  *)
(* the positions of its set bits.                                          *)
(***************************************************************************)
\* the bits of a u32
U32Bits == 0..31

\* the set bits of the natural number n < 2^31
BitsOf(n) == {i \in 0..30 : (n \div Pow2(i)) % 2 = 1}

\* clk_div_mask(width) << shift, and value << shift, as u32
div_mask_shifted(width, shift) == {b \in U32Bits : b >= shift /\ b < shift + width}
div_value_shifted(value, shift) == {b \in U32Bits : b >= shift /\ (b - shift) \in BitsOf(value)}

\* "val &= ~0x1;": assert
divider_assert(val) == val \ {0}

\* (variant of the second write: the "1 << 3" is left out)
divider_field_no_flag(reg, value, shift, width, hiword) ==
    (reg \ div_mask_shifted(width, shift)) \cup div_value_shifted(value, shift)

\* the value of the second write: with CLK_DIVIDER_HIWORD_MASK the mask in
\* the high half-word, otherwise the register read back with the field
\* cleared; then "val |= value << divider->shift; val |= 1 << 3;"
divider_field(reg, value, shift, width, hiword) ==
    (IF hiword THEN div_mask_shifted(width, shift + 16)
               ELSE reg \ div_mask_shifted(width, shift))
        \cup div_value_shifted(value, shift) \cup {3}

\* "val |= 1;": de-assert
divider_deassert(val) == val \cup {0}

(***************************************************************************)
(* The PWM controller (drivers/pwm/pwm-sophgo-sg2042.c).                   *)
(***************************************************************************)
NSEC_PER_SEC == KHZ * MHZ
U32_MAX == <<0, 4294, 967295>>
SG2042_PWM_CHANNELNUM == 4

\* mul_u64_u64_div_u64(a, b, c) = floor(a * b / c) with an intermediate
\* product that cannot overflow; here for a divisor c that is a multiple
\* of a (a clock of a whole number of nanoseconds per cycle), where
\* floor(a * b / c) = floor(b / (c / a))
mul_u64_u64_div_u64(a, b, c) == u64_div(b, c \div a)

\* min(x, U32_MAX)
min_u32_max(x) == IF u64_lt(U32_MAX, x) THEN U32_MAX ELSE x

\* "writel(period, base + SG2042_PERIOD(chan))"
pwm_write_period(regs, chan, period) ==
    [regs EXCEPT ![chan].period = period]

\* "writel(hlperiod, base + SG2042_HLPERIOD(chan))"
pwm_write_hlperiod(regs, chan, hlperiod) ==
    [regs EXCEPT ![chan].hlperiod = hlperiod]

\* (variant of pwm_sg2042_apply: the enabled test before the polarity test)
pwm_sg2042_apply_enabled_first(state, clk_rate_hz) ==
    LET period == min_u32_max(mul_u64_u64_div_u64(clk_rate_hz, state.period,
                                                  NSEC_PER_SEC))
        hlperiod == min_u32_max(mul_u64_u64_div_u64(clk_rate_hz,
                                                    state.duty_cycle,
                                                    NSEC_PER_SEC))
        nowrite == [config |-> FALSE, period |-> u64(0), hlperiod |-> u64(0)]
    IN  IF ~state.enabled
        THEN [nowrite EXCEPT !.config = TRUE] @@ [ret |-> 0]
        ELSE IF state.polarity = "PWM_POLARITY_INVERSED"
        THEN nowrite @@ [ret |-> -EINVAL]
        ELSE IF u64_lt(period, hlperiod)
        THEN nowrite @@ [ret |-> -EINVAL]
        ELSE [config |-> TRUE, period |-> period, hlperiod |-> hlperiod,
              ret |-> 0]

\* pwm_sg2042_apply up to its call of pwm_sg2042_config: whether it makes
\* the call, with which period and hlperiod, and what it returns
pwm_sg2042_apply(state, clk_rate_hz) ==
    LET period == min_u32_max(mul_u64_u64_div_u64(clk_rate_hz, state.period,
                                                  NSEC_PER_SEC))
        hlperiod == min_u32_max(mul_u64_u64_div_u64(clk_rate_hz,
                                                    state.duty_cycle,
                                                    NSEC_PER_SEC))
        nowrite == [config |-> FALSE, period |-> u64(0), hlperiod |-> u64(0)]
    IN  IF state.polarity = "PWM_POLARITY_INVERSED"
        THEN nowrite @@ [ret |-> -EINVAL]
        ELSE IF ~state.enabled
        THEN [nowrite EXCEPT !.config = TRUE] @@ [ret |-> 0]
        ELSE IF u64_lt(period, hlperiod)
        THEN nowrite @@ [ret |-> -EINVAL]
        ELSE [config |-> TRUE, period |-> period, hlperiod |-> hlperiod,
              ret |-> 0]

(***************************************************************************)
(* The rate read back from the control register, and round_rate           *)
(* (src/unnamed/part_002).                                                 *)
(***************************************************************************)
\* do_div(a, d) for a non-zero divisor d below 2^21: the quotient, by long
\* division over the digits of a in base 1000
u64_div_u32(a, d) ==
    LET D == <<a[1] \div MHZ, (a[1] \div KHZ) % KHZ, a[1] % KHZ,
               a[2] \div KHZ, a[2] % KHZ, a[3] \div KHZ, a[3] % KHZ>>
        t1 == D[1]
        t2 == (t1 % d) * KHZ + D[2]
        t3 == (t2 % d) * KHZ + D[3]
        t4 == (t3 % d) * KHZ + D[4]
        t5 == (t4 % d) * KHZ + D[5]
        t6 == (t5 % d) * KHZ + D[6]
        t7 == (t6 % d) * KHZ + D[7]
    IN  <<(t1 \div d) * MHZ + (t2 \div d) * KHZ + (t3 \div d),
          (t4 \div d) * KHZ + (t5 \div d),
          (t6 \div d) * KHZ + (t7 \div d)>>

\* (variant of sg2042_pll_recalc_rate: postdiv2 left out of the denominator)
sg2042_pll_recalc_rate_no_postdiv2(reg_value, parent_rate, dz) ==
    LET ctrl_table == sg2042_pll_ctrl_decode(reg_value)
        numerator == u64_mul(parent_rate, ctrl_table.fbdiv)
        denominator == ctrl_table.refdiv * ctrl_table.postdiv1
    IN  IF denominator = 0
        THEN [oops |-> dz = "trap", rate |-> U64_MAX]
        ELSE [oops |-> FALSE,
              rate |-> u64_div_u32(numerator, denominator)]

\* sg2042_pll_recalc_rate: one division of parent_rate * fbdiv by
\* refdiv * postdiv1 * postdiv2; oops when do_div raised a divide fault
sg2042_pll_recalc_rate(reg_value, parent_rate, dz) ==
    LET ctrl_table == sg2042_pll_ctrl_decode(reg_value)
        numerator == u64_mul(parent_rate, ctrl_table.fbdiv)
        denominator == ctrl_table.refdiv * ctrl_table.postdiv1
                           * ctrl_table.postdiv2
    IN  IF denominator = 0
        THEN [oops |-> dz = "trap", rate |-> U64_MAX]
        ELSE [oops |-> FALSE,
              rate |-> u64_div_u32(numerator, denominator)]

\* sg2042_clk_pll_round_rate after its call of the solver, which returned
\* setting: proper_rate, and whether a divide fault was raised
sg2042_clk_pll_round_rate(setting, prate, dz) ==
    IF setting.oops THEN [oops |-> TRUE, rate |-> u64(0)]
    ELSE IF setting.ret # 0 THEN [oops |-> FALSE, rate |-> u64(0)]
    ELSE CHOOSE proper_rate \in
             {sg2042_pll_recalc_rate(value, prate, dz) :
                  value \in {sg2042_pll_ctrl_encode(setting.best)}} : TRUE

(***************************************************************************)
(* State.                                                                  *)
(***************************************************************************)
VARIABLES
    pll_pc,       \* "call": solver about to run; "returned"; "oops"
    pll_req,      \* req_rate argument
    pll_parent,   \* parent_rate argument
    pll_dz,       \* what a division by zero does in this build
    pll_ret,      \* return value of sg2042_get_pll_ctl_setting
    pll_best,     \* *best after the call
    pll_early     \* the call left the loops by the "return 0" inside them

pll_vars == <<pll_pc, pll_req, pll_parent, pll_dz, pll_ret, pll_best, pll_early>>

VARIABLES
    codec_pc,     \* "start", "encoded" (control word written), "decoded"
    codec_drv,    \* "sg2042" or "mango": which driver's codec runs
    codec_in,     \* the four dividers to encode
    codec_reg,    \* the control word
    codec_out     \* the four dividers decoded from the control word

codec_vars == <<codec_pc, codec_drv, codec_in, codec_reg, codec_out>>

VARIABLES
    msi_irq_in_use,   \* pcie->msi_irq_in_use
    msi_irq_data,     \* the domain's irq_data: virq -> hwirq
    msi_live,         \* the allocations the IRQ core holds: [virq, nr_irqs]
    msi_last,         \* the last call: what it was given, what it returned,
                      \* and the bitmap before it
    msi_lock,         \* pcie->lock: the CPU holding it, 0 when free
    msi_cpu           \* per CPU: where it is in alloc or free, and its locals

msi_vars == <<msi_irq_in_use, msi_irq_data, msi_live, msi_last, msi_lock, msi_cpu>>

VARIABLES
    msi_data,          \* pcie->msi_data: the bus address of the shared region
    msi_page,          \* pcie->msi_page: entry index -> its non-zero u32 value
                       \* (an index outside the domain holds 0)
    num_applied_vecs,  \* pcie->num_applied_vecs
    msi_msg,           \* hwirq -> the message composed for it and programmed
                       \* into the device, for the vectors held
    disp,              \* the running sg2042_pcie_handle_msi_irq: its position
                       \* and locals
    disp_log           \* what the running or last handler did, in order

irq_vars == <<msi_data, msi_page, num_applied_vecs, msi_msg, disp, disp_log>>

\* The clock controller's PLL registers and the CPUs in
\* sg2042_clk_pll_set_rate
VARIABLES
    clk_lock,     \* sg2042_clk_lock: the CPU holding it, 0 when free
    clk_enable,   \* R_PLL_CLKEN_CONTROL: the PLLs whose enable bit is set
    clk_status,   \* R_PLL_STAT: its set bits
    clk_ctrl,     \* R_MPLL_CONTROL: the control word
    clk_cpu       \* per CPU: where it is in set_rate, and its locals

clk_vars == <<clk_lock, clk_enable, clk_status, clk_ctrl, clk_cpu>>

\* The top interrupt controller
VARIABLES
    tic_data,      \* struct top_intc_data: irq_num, irq_bitmap, plic_hwirqs,
                   \* tic_to_plic
    tic_irq_data,  \* the domain's irq_data: virq -> hwirq (the slot)
    tic_live,      \* the allocations the IRQ core holds: [virq, nr_irqs]
    tic_last       \* the last run of top_intc_irq_handler: what it did, and
                   \* whether its line's slot was in irq_bitmap and the
                   \* virtual IRQ mapped to that slot (0: none) when it ran

tic_vars == <<tic_data, tic_irq_data, tic_live, tic_last>>

\* The mux clocks of R_CLKSELREG0
VARIABLES
    mux_drv,   \* "part_001" or "part_002": whose sg2042_mux_notifier_cb runs
    mux_reg,   \* R_CLKSELREG0: its set bits
    mux_clk    \* per writable mux (by shift): mux->original_index, whether
               \* its last notification was PRE or POST, and the parent index
               \* before the last PRE

mux_vars == <<mux_drv, mux_reg, mux_clk>>

\* The syscon's interrupt registers and the chained MSI ISRs of the two
\* controllers (link_id 0 and 1) that share it
VARIABLES
    isr_reg0804,  \* CDNS_PCIE_IRS_REG0804: its set bits
    isr_reg0810,  \* CDNS_PCIE_IRS_REG0810: its set bits
    isr_link      \* per link_id: where its ISR is, the local status, what the
                  \* ISR has done since it was entered, and the value it read
                  \* from REG0804

isr_vars == <<isr_reg0804, isr_reg0810, isr_link>>

\* One pass of the solver's inner loop on its own: the post-divider lookup
\* for one (refdiv, fbdiv), then the rest of the loop body
VARIABLES
    pd_pc,    \* "call": lookup about to run; "looked_up"; "passed"
    pd_in,    \* rate, prate, fbdiv, refdiv, and what a division by zero does
    pd_out,   \* the lookup's return value and *postdiv1, *postdiv2
    pd_pass   \* the loop body's exit and *best after it

pd_vars == <<pd_pc, pd_in, pd_out, pd_pass>>

\* the regmap-based PLL driver: the holder of mango_pll->lock, the enable,
\* status and control registers behind syscon_top, and each CPU's place in
\* mango_clk_pll_set_rate
VARIABLES mg_lock, mg_enable, mg_status, mg_ctrl, mg_cpu
mg_vars == <<mg_lock, mg_enable, mg_status, mg_ctrl, mg_cpu>>

\* The VCO frequency of the regmap-based solver on its own: one evaluation of
\* "foutvco = fref * fbdiv / refdiv" for one (refdiv, fbdiv)
VARIABLES
    fv_pc,    \* "call": about to be computed; "done"
    fv_in,    \* fref, fbdiv, refdiv
    fv_out    \* foutvco

fv_vars == <<fv_pc, fv_in, fv_out>>

\* The divider: the holder of sg2042_clk_lock, the divider's control
\* register, the divider registered on it, and each CPU's place in
\* sg2042_clk_divider_set_rate
VARIABLES
    div_lock,   \* sg2042_clk_lock: the CPU holding it, 0 when free
    div_reg,    \* the control register: its set bits
    div_clk,    \* the divider: shift, width, CLK_DIVIDER_HIWORD_MASK
    div_cpu     \* per CPU: pc, value, val, the register at the first
                \* readl, and the values written so far

div_vars == <<div_lock, div_reg, div_clk, div_cpu>>

\* The PWM controller: the PERIOD and HLPERIOD registers of its channels,
\* the rate of its base clock, and the call of pwm_sg2042_apply in progress
VARIABLES
    pwm_regs,    \* per channel: period, hlperiod
    pwm_clk,     \* ddata->clk_rate_hz
    pwm_call     \* pc, hwpwm, state, the registers at the call, what apply
                 \* decided

pwm_vars == <<pwm_regs, pwm_clk, pwm_call>>

PwmChannels == 0..(SG2042_PWM_CHANNELNUM - 1)

\* the registers after reset: "The value of HLPERIOD/PERIOD is 0"
PwmRegsAtReset ==
    [ch \in PwmChannels |-> [period |-> u64(0), hlperiod |-> u64(0)]]

\* no call of pwm_sg2042_apply in progress
PwmNoCall ==
    [pc |-> "idle", hwpwm |-> 0,
     state |-> [enabled |-> FALSE, polarity |-> "PWM_POLARITY_NORMAL",
                period |-> u64(0), duty_cycle |-> u64(0)],
     before |-> PwmRegsAtReset,
     out |-> [config |-> FALSE, period |-> u64(0), hlperiod |-> u64(0),
              ret |-> 0]]

\* the PWM controller not in use
PwmIdle ==
    /\ pwm_regs = PwmRegsAtReset
    /\ pwm_clk = 0
    /\ pwm_call = PwmNoCall

\* round_rate, set_rate and recalc_rate of one PLL in a row
VARIABLES
    rr_pc,      \* "idle", "call", "rounded", "set", "read", "oops"
    rr_in,      \* rate, prate, and what a division by zero does
    rr_reg,     \* the PLL's control register
    rr_out      \* the solver's result, and what round_rate and recalc_rate
                \* returned

rr_vars == <<rr_pc, rr_in, rr_reg, rr_out>>

RrNoOut == [ret |-> 0, best |-> PllCtrlZero, round |-> u64(0),
            recalc |-> u64(0)]

\* no rate requested
RrIdle ==
    /\ rr_pc = "idle"
    /\ rr_in = [rate |-> u64(0), prate |-> u64(0), dz |-> "allones"]
    /\ rr_reg = 0
    /\ rr_out = RrNoOut

\* The chained MSI ISR of link 0 together with the handler it calls and the
\* device: the ISR's position, the MSI-pending status of REG0810, and for
\* each slot the device's last write that no interrupt has answered yet
VARIABLES
    lm_pc,       \* "idle", "read_status", "clear", "scan", "scanning", "exit"
    lm_status,   \* REG0810: its set bits
    lm_stamp     \* per slot: -1, or the length of the handler's log when the
                 \* device last wrote to the slot's entry (0 when the write
                 \* was before the handler's current run)

lm_vars == <<lm_pc, lm_status, lm_stamp>>

\* the slots followed
LmSlots == {0, 1}

\* the ISR not in use
LmIdle ==
    /\ lm_pc = "idle"
    /\ lm_status = {}
    /\ lm_stamp = [s \in LmSlots |-> -1]

\* the state of the drivers modelled after the clock controller
ext_vars == <<tic_vars, mux_vars, isr_vars, pd_vars, mg_vars, fv_vars, div_vars, pwm_vars, rr_vars, lm_vars>>

vars == <<pll_vars, codec_vars, msi_vars, irq_vars, clk_vars, ext_vars>>

PllIdle ==
    /\ pll_pc = "idle"
    /\ pll_req = u64(0)
    /\ pll_parent = u64(0)
    /\ pll_dz = "allones"
    /\ pll_ret = 0
    /\ pll_best = PllCtrlZero
    /\ pll_early = FALSE

\* no call yet
MsiNoCall ==
    [op |-> "none", virq |-> 0, nr_irqs |-> 0, ret |-> 0, hwirq |-> 0,
     before |-> {}, prior |-> {}, undoes |-> FALSE]

\* the CPUs that run the IRQ core's calls
NumCpus == 2
Cpus == 1..NumCpus

\* a CPU outside alloc and free
CpuIdle == [pc |-> "idle", virq |-> 0, nr_irqs |-> 0, bit |-> 0, hwirq |-> 0]

\* a CPU outside sg2042_clk_pll_set_rate
ClkCpuIdle == [pc |-> "idle", rate |-> u64(0), value |-> {}, ret |-> 0,
               pctrl_table |-> PllCtrlZero, warned |-> {}, log |-> <<>>]

\* the clock controller with every PLL enabled, locked and not updating, and
\* no rate change running
ClkIdle ==
    /\ clk_lock = 0
    /\ clk_enable = PllShifts
    /\ clk_status = {shift_status_lock(sh) : sh \in PllShifts}
    /\ clk_ctrl = 0
    /\ clk_cpu = [c \in Cpus |-> ClkCpuIdle]

\* struct top_intc_data after probe
TicProbed(base, irq_num) ==
    [irq_num |-> irq_num, irq_bitmap |-> {},
     plic_hwirqs |-> probe_plic_hwirqs(base, irq_num),
     tic_to_plic |-> probe_tic_to_plic]

\* no run of top_intc_irq_handler yet
TicNoIrq == [plic_hwirq |-> 0, i |-> 0, raised |-> 0, clr |-> -1, ack |-> -1,
             allocated |-> FALSE, mapped |-> 0]

\* the top interrupt controller after probe with 32 lines, nothing allocated
TicIdle ==
    /\ tic_data = TicProbed(1, MAX_IRQ_NUMBER)
    /\ tic_irq_data = <<>>
    /\ tic_live = {}
    /\ tic_last = TicNoIrq

\* the shifts of the muxes registered without CLK_MUX_READ_ONLY, and of all
MuxShifts == {0, 1}
MuxAllShifts == {0, 1, 2, 3}

\* a mux no notification has reached
MuxClkIdle == [original_index |-> 0, pc |-> "idle", before |-> 0]

\* the muxes after registration, every one on parent index 0
MuxIdle ==
    /\ mux_drv = "part_002"
    /\ mux_reg = MuxAllShifts
    /\ mux_clk = [m \in MuxShifts |-> MuxClkIdle]

\* the link_ids of the controllers behind one syscon
Links == {0, 1}

\* a controller whose ISR has not run
IsrLinkIdle == [pc |-> "idle", status |-> {}, log |-> <<>>, read0804 |-> {},
                read0810 |-> {}]

\* the syscon with no MSI pending and no ISR running
IsrIdle ==
    /\ isr_reg0804 = {}
    /\ isr_reg0810 = {}
    /\ isr_link = [l \in Links |-> IsrLinkIdle]

\* no lookup result yet, and no pass of the loop body
PdNoOut == [ret |-> 0, postdiv1 |-> 0, postdiv2 |-> 0]
PdNoPass == [best |-> PllCtrlZero, exit |-> "none"]

\* no lookup requested
PdIdle ==
    /\ pd_pc = "idle"
    /\ pd_in = [rate |-> u64(0), prate |-> u64(0), fbdiv |-> 0, refdiv |-> 0,
                dz |-> "allones"]
    /\ pd_out = PdNoOut
    /\ pd_pass = PdNoPass

\* the id of the PLL whose rate is set: MPLL_CLK
MangoPllId == MPLL_CLK

\* a CPU outside mango_clk_pll_set_rate; expired: jiffies is past
\* enter + HZ / 10
MangoCpuIdle == [pc |-> "idle", rate |-> u64(0), value |-> {},
                 pctrl_table |-> MangoCtrlZero, expired |-> FALSE,
                 warned |-> {}]

\* the regmap-based driver with its PLL enabled, locked and not updating,
\* and no rate change running
MangoIdle ==
    /\ mg_lock = 0
    /\ mg_enable = {MangoPllId}
    /\ mg_status = {PLL_STAT_LOCK_OFFSET + MangoPllId}
    /\ mg_ctrl = 0
    /\ mg_cpu = [c \in Cpus |-> MangoCpuIdle]

\* no VCO frequency requested
FvIdle ==
    /\ fv_pc = "idle"
    /\ fv_in = [fref |-> u64(0), fbdiv |-> 0, refdiv |-> 0]
    /\ fv_out = u64(0)

\* the CPUs that call sg2042_clk_divider_set_rate
DivCpus == {1, 2}

\* a CPU outside sg2042_clk_divider_set_rate
DivCpuIdle == [pc |-> "idle", value |-> 0, val |-> {}, before |-> {},
               log |-> <<>>]

\* no divider in use
DivIdle ==
    /\ div_lock = 0
    /\ div_reg = {}
    /\ div_clk = [shift |-> 0, width |-> 0, hiword |-> FALSE]
    /\ div_cpu = [c \in DivCpus |-> DivCpuIdle]

ExtIdle == TicIdle /\ MuxIdle /\ IsrIdle /\ PdIdle /\ MangoIdle /\ FvIdle /\ DivIdle /\ PwmIdle /\ RrIdle /\ LmIdle

\* the controller after sg2042_pcie_setup_msi: no bit in use, no mapping
MsiIdle ==
    /\ msi_irq_in_use = {}
    /\ msi_irq_data = <<>>
    /\ msi_live = {}
    /\ msi_last = MsiNoCall
    /\ msi_lock = 0
    /\ msi_cpu = [c \in Cpus |-> CpuIdle]

\* the handler not running
DispIdle == [pc |-> "idle", i |-> 0, num_vectors |-> 0, ret |-> "IRQ_NONE",
             status |-> 0]

\* the shared region after sg2042_pcie_msi_init at bus address 0: zeroed,
\* nothing composed, the handler not running
IrqIdle ==
    /\ msi_data = [hi |-> 0, lo |-> <<0, 0>>]
    /\ msi_page = <<>>
    /\ num_applied_vecs = 0
    /\ msi_msg = <<>>
    /\ disp = DispIdle
    /\ disp_log = <<>>

DividersZero == [fbdiv |-> 0, postdiv1 |-> 0, postdiv2 |-> 0, refdiv |-> 0]

CodecIdle ==
    /\ codec_pc = "idle"
    /\ codec_drv = "sg2042"
    /\ codec_in = DividersZero
    /\ codec_reg = 0
    /\ codec_out = DividersZero

\* Requested rates: a grid over [PLL_FOUTPOSTDIV_MIN, PLL_FOUTPOSTDIV_MAX],
\* the 1000 MHz of the documented example, and one rate below and one above
\* the range.
RateGridPoints == 24
RateStepMHz == (3200 - 16) \div RateGridPoints
TargetRates ==
    {Hz(16 + k * RateStepMHz, 0) : k \in 0..RateGridPoints}
        \cup {Hz(3200, 0), Hz(1000, 0)}
        \cup {Hz(15, 0), Hz(3201, 0)}
ParentRates == {PLL_FREF_SG2042, Hz(50, 0)}

InitPll ==
    /\ pll_pc = "call"
    /\ pll_req \in TargetRates
    /\ pll_parent \in ParentRates
    /\ pll_dz \in DivZeroOutcomes
    /\ pll_ret = 0
    /\ pll_best = PllCtrlZero
    /\ pll_early = FALSE
    /\ CodecIdle
    /\ MsiIdle
    /\ IrqIdle
    /\ ClkIdle
    /\ ExtIdle

GetPllCtlSetting ==
    /\ pll_pc = "call"
    /\ LET r == sg2042_get_pll_ctl_setting(pll_req, pll_parent, pll_dz)
       IN  /\ pll_pc' = IF r.oops THEN "oops" ELSE "returned"
           /\ pll_ret' = r.ret
           /\ pll_best' = r.best
           /\ pll_early' = r.early
    /\ UNCHANGED <<pll_req, pll_parent, pll_dz, codec_vars, msi_vars, irq_vars, clk_vars, ext_vars>>

NextPll == GetPllCtlSetting

SpecPll == InitPll /\ [][NextPll]_vars

(***************************************************************************)
(* The control-word codec: divider values are drawn, encoded into the      *)
(* control word and decoded back, with either driver's pair of functions.  *)
(***************************************************************************)
\* divider values: the edges of the register fields and of both search ranges
CodecFbdivs == {0, 1, 15, 16, 17, 255, 256, 320, 321, 2730, 4095}
CodecPostdivs == 0..7
CodecRefdivs == {0, 1, 2, 3, 21, 42, 62, 63, 64}

InitCodec ==
    /\ codec_pc = "start"
    /\ codec_drv \in {"sg2042", "mango"}
    /\ codec_in \in [fbdiv : CodecFbdivs, postdiv1 : CodecPostdivs,
                     postdiv2 : CodecPostdivs, refdiv : CodecRefdivs]
    /\ codec_reg = 0
    /\ codec_out = DividersZero
    /\ PllIdle
    /\ MsiIdle
    /\ IrqIdle
    /\ ClkIdle
    /\ ExtIdle

Sg2042Encode ==
    /\ codec_pc = "start" /\ codec_drv = "sg2042"
    /\ codec_reg' = sg2042_pll_ctrl_encode(codec_in)
    /\ codec_pc' = "encoded"
    /\ UNCHANGED <<codec_drv, codec_in, codec_out, pll_vars, msi_vars, irq_vars, clk_vars, ext_vars>>

Sg2042Decode ==
    /\ codec_pc = "encoded" /\ codec_drv = "sg2042"
    /\ codec_out' = sg2042_pll_ctrl_decode(codec_reg)
    /\ codec_pc' = "decoded"
    /\ UNCHANGED <<codec_drv, codec_in, codec_reg, pll_vars, msi_vars, irq_vars, clk_vars, ext_vars>>

MangoEncode ==
    /\ codec_pc = "start" /\ codec_drv = "mango"
    /\ codec_reg' = ENCODE_PLL_CTRL(codec_in.fbdiv, codec_in.postdiv1,
                                    codec_in.postdiv2, codec_in.refdiv)
    /\ codec_pc' = "encoded"
    /\ UNCHANGED <<codec_drv, codec_in, codec_out, pll_vars, msi_vars, irq_vars, clk_vars, ext_vars>>

MangoDecode ==
    /\ codec_pc = "encoded" /\ codec_drv = "mango"
    /\ codec_out' = mango_pll_recalc_rate_fields(codec_reg)
    /\ codec_pc' = "decoded"
    /\ UNCHANGED <<codec_drv, codec_in, codec_reg, pll_vars, msi_vars, irq_vars, clk_vars, ext_vars>>

NextCodec == Sg2042Encode \/ Sg2042Decode \/ MangoEncode \/ MangoDecode

SpecCodec == InitCodec /\ [][NextCodec]_vars

(***************************************************************************)
(* The MSI controller, one call at a time: the IRQ core allocates vectors  *)
(* for a device and frees them again.                                      *)
(***************************************************************************)
\* how many allocations are held at once, and the vector counts requested
MaxLive == 2
NrIrqsRequested == {1, 3, 5, 512}

\* the virqs of the allocations held
VirqsOf(allocs) == UNION {a.virq..(a.virq + a.nr_irqs - 1) : a \in allocs}

IrqDomainAlloc(nr_irqs) ==
    /\ Cardinality(msi_live) < MaxLive
    /\ LET virq == irq_domain_alloc_descs(VirqsOf(msi_live), nr_irqs)
           r == sg2042_pcie_irq_domain_alloc(msi_irq_in_use, msi_irq_data,
                                             virq, nr_irqs)
       IN  /\ msi_irq_in_use' = r.in_use
           /\ msi_irq_data' = r.irq_data
           /\ msi_live' = IF r.ret = 0
                          THEN msi_live \cup {[virq |-> virq, nr_irqs |-> nr_irqs]}
                          ELSE msi_live
           /\ msi_last' = [op |-> "alloc", virq |-> virq, nr_irqs |-> nr_irqs,
                           ret |-> r.ret, hwirq |-> r.bit,
                           before |-> msi_irq_in_use, prior |-> {},
                           undoes |-> FALSE]
    /\ UNCHANGED <<pll_vars, codec_vars, msi_lock, msi_cpu, irq_vars, clk_vars, ext_vars>>

IrqDomainFree(a) ==
    /\ a \in msi_live
    /\ LET undoes == /\ msi_last.op = "alloc" /\ msi_last.ret = 0
                     /\ msi_last.virq = a.virq /\ msi_last.nr_irqs = a.nr_irqs
       IN  /\ msi_irq_in_use' = sg2042_pcie_irq_domain_free(
                                    msi_irq_in_use, msi_irq_data, a.virq, a.nr_irqs)
           /\ msi_irq_data' = irq_domain_free_irq_data(msi_irq_data, a.virq, a.nr_irqs)
           /\ msi_live' = msi_live \ {a}
           /\ msi_last' = [op |-> "free", virq |-> a.virq, nr_irqs |-> a.nr_irqs,
                           ret |-> 0, hwirq |-> msi_irq_data[a.virq],
                           before |-> msi_irq_in_use,
                           prior |-> IF undoes THEN msi_last.before ELSE {},
                           undoes |-> undoes]
    /\ msi_msg' = msi_teardown_msgs(msi_msg, msi_irq_data, a.virq, a.nr_irqs)
    /\ UNCHANGED <<clk_vars, ext_vars, pll_vars, codec_vars, msi_lock, msi_cpu>>
    /\ UNCHANGED <<msi_data, msi_page, num_applied_vecs, disp, disp_log>>

NextMsi ==
    \/ \E nr_irqs \in NrIrqsRequested : IrqDomainAlloc(nr_irqs)
    \/ \E a \in msi_live : IrqDomainFree(a)

InitMsi == MsiIdle /\ PllIdle /\ CodecIdle /\ IrqIdle /\ ClkIdle /\ ExtIdle

SpecMsi == InitMsi /\ [][NextMsi]_vars

(***************************************************************************)
(* The MSI controller with messages: vectors are allocated, their messages *)
(* are composed when the IRQ core activates them (in any order), and they  *)
(* are freed again.                                                        *)
(***************************************************************************)
\* where dma_alloc_coherent placed the shared region: page-aligned bus
\* addresses at the bottom and at the top of the low 4 GiB, and above it
MsiDataBases ==
    {[hi |-> 0, lo |-> <<0, 0>>],
     [hi |-> 0, lo |-> <<Pages32 - 1, 0>>],
     [hi |-> 1, lo |-> <<16, 0>>]}

\* the vector counts requested, and the hardware IRQs whose activation is
\* followed: the first three and the first and last of each half
MsgNrIrqsRequested == {1, 512}
ComposeSlots == {0, 1, 2, 255, 256, 511}

InitMsiMsg ==
    /\ MsiIdle /\ PllIdle /\ CodecIdle /\ ClkIdle /\ ExtIdle
    /\ msi_data \in MsiDataBases
    /\ msi_page = <<>>
    /\ num_applied_vecs = 0
    /\ msi_msg = <<>>
    /\ disp = DispIdle
    /\ disp_log = <<>>

\* irq_chip_compose_msi_msg on the irq_data of virq, and the message written
\* to the device
MsiCompose(virq) ==
    /\ virq \in DOMAIN msi_irq_data
    /\ msi_irq_data[virq] \in ComposeSlots
    /\ LET hwirq == msi_irq_data[virq]
           r == sg2042_pcie_setup_msi_msg(msi_data, hwirq)
       IN  /\ num_applied_vecs' = r.num_applied_vecs
           /\ msi_msg' = [h \in (DOMAIN msi_msg) \cup {hwirq} |->
                             IF h = hwirq
                             THEN [address_lo |-> r.address_lo,
                                   address_hi |-> r.address_hi,
                                   data |-> r.data]
                             ELSE msi_msg[h]]
    /\ UNCHANGED <<clk_vars, ext_vars, pll_vars, codec_vars, msi_vars>>
    /\ UNCHANGED <<msi_data, msi_page, disp, disp_log>>

NextMsiMsg ==
    \/ \E nr_irqs \in MsgNrIrqsRequested : IrqDomainAlloc(nr_irqs)
    \/ \E a \in msi_live : IrqDomainFree(a)
    \/ \E virq \in DOMAIN msi_irq_data : MsiCompose(virq)

SpecMsiMsg == InitMsiMsg /\ [][NextMsiMsg]_vars

(***************************************************************************)
(* The MSI controller with its interrupt handler: vectors are allocated,   *)
(* composed and freed, the device writes to the entries of the shared      *)
(* region, and sg2042_pcie_handle_msi_irq runs one statement at a time     *)
(* while all of this goes on.                                              *)
(***************************************************************************)
\* the vector counts requested and the values written to an entry: the
\* message data 1, a value with bit 0 clear, a value with several bits set
IrqNrIrqsRequested == {3}
\* the number of allocations that are live at once while the handler runs
MaxIrqLive == 1
EntryValues == {2, 5}

\* the IRQ core's .alloc and .free calls, as IrqDomainAlloc and IrqDomainFree
\* without the record of the last call
IrqCoreAlloc(nr_irqs) ==
    /\ Cardinality(msi_live) < MaxIrqLive
    /\ LET virq == irq_domain_alloc_descs(VirqsOf(msi_live), nr_irqs)
           r == sg2042_pcie_irq_domain_alloc(msi_irq_in_use, msi_irq_data,
                                             virq, nr_irqs)
       IN  /\ msi_irq_in_use' = r.in_use
           /\ msi_irq_data' = r.irq_data
           /\ msi_live' = IF r.ret = 0
                          THEN msi_live \cup {[virq |-> virq, nr_irqs |-> nr_irqs]}
                          ELSE msi_live
    /\ UNCHANGED <<pll_vars, codec_vars, msi_last, msi_lock, msi_cpu, irq_vars, clk_vars, ext_vars>>

IrqCoreFree(a) ==
    /\ a \in msi_live
    /\ msi_irq_in_use' = sg2042_pcie_irq_domain_free(
                             msi_irq_in_use, msi_irq_data, a.virq, a.nr_irqs)
    /\ msi_irq_data' = irq_domain_free_irq_data(msi_irq_data, a.virq, a.nr_irqs)
    /\ msi_live' = msi_live \ {a}
    /\ msi_msg' = msi_teardown_msgs(msi_msg, msi_irq_data, a.virq, a.nr_irqs)
    /\ UNCHANGED <<clk_vars, ext_vars, pll_vars, codec_vars, msi_last, msi_lock, msi_cpu>>
    /\ UNCHANGED <<msi_data, msi_page, num_applied_vecs, disp, disp_log>>

DispUnchanged ==
    UNCHANGED <<clk_vars, ext_vars, pll_vars, codec_vars, msi_vars, msi_data, num_applied_vecs, msi_msg>>

\* the device (or the root complex for it) writes a value to the address of
\* the message it holds for slot s
DeviceWrite(s, v) ==
    /\ s \in DOMAIN msi_msg
    /\ msi_page' = [j \in (DOMAIN msi_page) \cup {s} |->
                       IF j = s THEN v ELSE msi_page[j]]
    /\ UNCHANGED <<disp, disp_log>>
    /\ DispUnchanged

\* entry of sg2042_pcie_handle_msi_irq: ret = IRQ_NONE,
\* num_vectors = pcie->num_applied_vecs, i = 0
DispEnter ==
    /\ disp.pc = "idle"
    /\ disp' = [pc |-> "read", i |-> 0, num_vectors |-> num_applied_vecs,
                ret |-> "IRQ_NONE", status |-> 0]
    /\ disp_log' = <<>>
    /\ UNCHANGED msi_page
    /\ DispUnchanged

\* first loop: "i <= num_vectors", status = readl(entry i),
\* "if (!status) continue;", else ret = IRQ_HANDLED; after the loop the
\* "if (ret == IRQ_NONE)" that starts the second pass
DispRead ==
    /\ disp.pc = "read"
    /\ IF disp.i > disp.num_vectors
       THEN /\ disp' = IF msi_fallback_needed(disp.ret)
                       THEN [disp EXCEPT !.pc = "fallback", !.i = 0,
                                         !.ret = "IRQ_HANDLED"]
                       ELSE [disp EXCEPT !.pc = "done"]
            /\ UNCHANGED disp_log
       ELSE LET status == msi_page_readl(msi_page, disp.i)
            IN  /\ disp' = IF status = 0
                           THEN [disp EXCEPT !.i = disp.i + 1, !.status = 0]
                           ELSE [disp EXCEPT !.pc = "raise", !.status = status,
                                             !.ret = "IRQ_HANDLED"]
                /\ disp_log' = IF status = 0 THEN disp_log
                               ELSE Append(disp_log,
                                           [ev |-> "read", i |-> disp.i,
                                            val |-> status])
    /\ UNCHANGED msi_page
    /\ DispUnchanged

\* the find_next_bit loop of entry i: irq_find_mapping and generic_handle_irq
\* for each set bit below MAX_MSI_IRQS_PER_CTRL
DispRaise ==
    /\ disp.pc = "raise"
    /\ disp' = [disp EXCEPT !.pc = "zero"]
    /\ disp_log' = IF msi_status_bits(disp.status) = {}
                   THEN disp_log
                   ELSE Append(disp_log,
                               [ev |-> "raise", i |-> disp.i,
                                val |-> irq_find_mapping(msi_irq_data, disp.i)])
    /\ UNCHANGED msi_page
    /\ DispUnchanged

\* writel(0, entry i), and on to the next i
DispZero ==
    /\ disp.pc = "zero"
    /\ msi_page' = msi_page_writel_zero(msi_page, disp.i)
    /\ disp' = [disp EXCEPT !.pc = "read", !.i = disp.i + 1]
    /\ disp_log' = Append(disp_log, [ev |-> "write", i |-> disp.i, val |-> 0])
    /\ DispUnchanged

\* second pass, one i: irq_find_mapping, "if (!irq) continue;",
\* generic_handle_irq
DispFallback ==
    /\ disp.pc = "fallback"
    /\ IF disp.i > disp.num_vectors
       THEN /\ disp' = [disp EXCEPT !.pc = "done"]
            /\ UNCHANGED disp_log
       ELSE LET irq == irq_find_mapping(msi_irq_data, disp.i)
            IN  /\ disp' = [disp EXCEPT !.i = disp.i + 1]
                /\ disp_log' = IF irq = 0 THEN disp_log
                               ELSE Append(disp_log,
                                           [ev |-> "fallback", i |-> disp.i,
                                            val |-> irq])
    /\ UNCHANGED msi_page
    /\ DispUnchanged

\* "return ret;"
DispReturn ==
    /\ disp.pc = "done"
    /\ disp' = DispIdle
    /\ disp_log' = <<>>
    /\ UNCHANGED msi_page
    /\ DispUnchanged

NextMsiIrq ==
    \/ \E nr_irqs \in IrqNrIrqsRequested : IrqCoreAlloc(nr_irqs)
    \/ \E a \in msi_live : IrqCoreFree(a)
    \/ \E virq \in DOMAIN msi_irq_data : MsiCompose(virq)
    \/ \E s \in DOMAIN msi_msg : \E v \in EntryValues : DeviceWrite(s, v)
    \/ DispEnter
    \/ DispRead
    \/ DispRaise
    \/ DispZero
    \/ DispFallback
    \/ DispReturn

SpecMsiIrq == InitMsi /\ [][NextMsiIrq]_vars

(***************************************************************************)
(* The MSI controller with alloc and free running on several CPUs: each    *)
(* step is one statement of sg2042_pcie_irq_domain_alloc or                *)
(* sg2042_pcie_irq_domain_free; bitmap_find_free_region is its scan and    *)
(* its marking of the region, two steps.                                   *)
(***************************************************************************)
SmpNrIrqsRequested == {3, 512}

\* allocations in flight on the CPUs
SmpAllocating == {c \in Cpus : msi_cpu[c].pc \in
                    {"alloc_lock", "alloc_scan", "alloc_mark", "alloc_unlock", "alloc_ret"}}
SmpFreeing == {c \in Cpus : msi_cpu[c].pc \in
                    {"free_lock", "free_release", "free_unlock"}}

\* the virqs whose descriptors exist
SmpVirqsInUse ==
    VirqsOf(msi_live)
        \cup UNION {msi_cpu[c].virq..(msi_cpu[c].virq + msi_cpu[c].nr_irqs - 1) :
                        c \in SmpAllocating \cup SmpFreeing}

SmpUnchanged == UNCHANGED <<pll_vars, codec_vars, msi_last, irq_vars, clk_vars, ext_vars>>

\* the IRQ core calls .alloc on CPU c for nr_irqs vectors
SmpCallAlloc(c, nr_irqs) ==
    /\ msi_cpu[c].pc = "idle"
    /\ Cardinality(msi_live) + Cardinality(SmpAllocating \cup SmpFreeing) < MaxLive
    /\ msi_cpu' = [msi_cpu EXCEPT ![c] =
           [pc |-> "alloc_lock",
            virq |-> irq_domain_alloc_descs(SmpVirqsInUse, nr_irqs),
            nr_irqs |-> nr_irqs, bit |-> 0, hwirq |-> 0]]
    /\ UNCHANGED <<msi_irq_in_use, msi_irq_data, msi_live, msi_lock>>
    /\ SmpUnchanged

\* raw_spin_lock_irqsave(&pcie->lock, flags)
SmpAllocLock(c) ==
    /\ msi_cpu[c].pc = "alloc_lock"
    /\ alloc_lock_acquired(msi_lock)
    /\ msi_lock' = c
    /\ msi_cpu' = [msi_cpu EXCEPT ![c].pc = "alloc_scan"]
    /\ UNCHANGED <<msi_irq_in_use, msi_irq_data, msi_live>>
    /\ SmpUnchanged

\* bitmap_find_free_region: the scan for a free region
SmpAllocScan(c) ==
    /\ msi_cpu[c].pc = "alloc_scan"
    /\ LET bit == bitmap_scan_free_region(msi_irq_in_use, num_vectors,
                                          order_base_2(msi_cpu[c].nr_irqs))
       IN  msi_cpu' = [msi_cpu EXCEPT ![c].bit = bit,
                           ![c].pc = IF bit < 0 THEN "alloc_unlock" ELSE "alloc_mark"]
    /\ UNCHANGED <<msi_irq_in_use, msi_irq_data, msi_live, msi_lock>>
    /\ SmpUnchanged

\* bitmap_find_free_region: the region found is marked
SmpAllocMark(c) ==
    /\ msi_cpu[c].pc = "alloc_mark"
    /\ msi_irq_in_use' = bitmap_set_region(msi_irq_in_use, msi_cpu[c].bit,
                                           order_base_2(msi_cpu[c].nr_irqs))
    /\ msi_cpu' = [msi_cpu EXCEPT ![c].pc = "alloc_unlock"]
    /\ UNCHANGED <<msi_irq_data, msi_live, msi_lock>>
    /\ SmpUnchanged

\* raw_spin_unlock_irqrestore(&pcie->lock, flags)
SmpAllocUnlock(c) ==
    /\ msi_cpu[c].pc = "alloc_unlock"
    /\ msi_lock' = 0
    /\ msi_cpu' = [msi_cpu EXCEPT ![c].pc = "alloc_ret"]
    /\ UNCHANGED <<msi_irq_in_use, msi_irq_data, msi_live>>
    /\ SmpUnchanged

\* "if (bit < 0) return -ENOSPC;", else the irq_domain_set_info loop and
\* "return 0": the IRQ core holds the allocation from here on
SmpAllocReturn(c) ==
    /\ msi_cpu[c].pc = "alloc_ret"
    /\ IF msi_cpu[c].bit < 0
       THEN UNCHANGED <<msi_irq_data, msi_live>>
       ELSE /\ msi_irq_data' = irq_domain_set_info_range(
                                   msi_irq_data, msi_cpu[c].virq,
                                   msi_cpu[c].bit, msi_cpu[c].nr_irqs)
            /\ msi_live' = msi_live \cup {[virq |-> msi_cpu[c].virq,
                                           nr_irqs |-> msi_cpu[c].nr_irqs]}
    /\ msi_cpu' = [msi_cpu EXCEPT ![c] = CpuIdle]
    /\ UNCHANGED <<msi_irq_in_use, msi_lock>>
    /\ SmpUnchanged

\* the IRQ core calls .free on CPU c for an allocation it holds; the handler
\* reads d->hwirq
SmpCallFree(c, a) ==
    /\ msi_cpu[c].pc = "idle"
    /\ a \in msi_live
    /\ msi_live' = msi_live \ {a}
    /\ msi_cpu' = [msi_cpu EXCEPT ![c] =
           [pc |-> "free_lock", virq |-> a.virq, nr_irqs |-> a.nr_irqs,
            bit |-> 0, hwirq |-> msi_irq_data[a.virq]]]
    /\ UNCHANGED <<msi_irq_in_use, msi_irq_data, msi_lock>>
    /\ SmpUnchanged

\* raw_spin_lock_irqsave(&pcie->lock, flags)
SmpFreeLock(c) ==
    /\ msi_cpu[c].pc = "free_lock"
    /\ free_lock_acquired(msi_lock)
    /\ msi_lock' = c
    /\ msi_cpu' = [msi_cpu EXCEPT ![c].pc = "free_release"]
    /\ UNCHANGED <<msi_irq_in_use, msi_irq_data, msi_live>>
    /\ SmpUnchanged

\* bitmap_release_region(pcie->msi_irq_in_use, d->hwirq, order_base_2(nr_irqs))
SmpFreeRelease(c) ==
    /\ msi_cpu[c].pc = "free_release"
    /\ msi_irq_in_use' = bitmap_release_region(msi_irq_in_use, msi_cpu[c].hwirq,
                                               order_base_2(msi_cpu[c].nr_irqs))
    /\ msi_cpu' = [msi_cpu EXCEPT ![c].pc = "free_unlock"]
    /\ UNCHANGED <<msi_irq_data, msi_live, msi_lock>>
    /\ SmpUnchanged

\* raw_spin_unlock_irqrestore(&pcie->lock, flags) and the return to the IRQ
\* core, which drops the irq_data
SmpFreeUnlock(c) ==
    /\ msi_cpu[c].pc = "free_unlock"
    /\ msi_lock' = 0
    /\ msi_irq_data' = irq_domain_free_irq_data(msi_irq_data, msi_cpu[c].virq,
                                                msi_cpu[c].nr_irqs)
    /\ msi_cpu' = [msi_cpu EXCEPT ![c] = CpuIdle]
    /\ UNCHANGED <<msi_irq_in_use, msi_live>>
    /\ SmpUnchanged

NextMsiSmp ==
    \E c \in Cpus :
        \/ \E nr_irqs \in SmpNrIrqsRequested : SmpCallAlloc(c, nr_irqs)
        \/ SmpAllocLock(c)
        \/ SmpAllocScan(c)
        \/ SmpAllocMark(c)
        \/ SmpAllocUnlock(c)
        \/ SmpAllocReturn(c)
        \/ \E a \in msi_live : SmpCallFree(c, a)
        \/ SmpFreeLock(c)
        \/ SmpFreeRelease(c)
        \/ SmpFreeUnlock(c)

SpecMsiSmp == InitMsi /\ [][NextMsiSmp]_vars

(***************************************************************************)
(* The MPLL rate change on several CPUs: each step is one statement of     *)
(* sg2042_clk_pll_set_rate or of the sg2042_pll_enable it calls, a         *)
(* register read and the write that follows it being two steps; the        *)
(* hardware changes the status register at any time.                       *)
(***************************************************************************)
\* the rates requested: below the output range (no setting exists), the
\* 1000 MHz of the documented example, and 2000 MHz
ClkRates == {Hz(15, 0), Hz(1000, 0), Hz(2000, 0)}
\* the rate of cgi_main, the parent of mpll_clock
ClkParentRate == PLL_FREF_SG2042

\* what sg2042_get_pll_ctl_setting returns for each rate requested, by what
\* a division by zero does in the build
ClkSettings ==
    {[rate |-> a[1], dz |-> a[2],
      r |-> sg2042_get_pll_ctl_setting(a[1], ClkParentRate, a[2])] :
         a \in ClkRates \X DivZeroOutcomes}
ClkSetting(rate, dz) ==
    (CHOOSE t \in ClkSettings : t.rate = rate /\ t.dz = dz).r

\* sg2042_pll_ctrl_encode of each of these settings
ClkControlWords ==
    {[ctrl |-> t.r.best, value |-> sg2042_pll_ctrl_encode(t.r.best)] :
         t \in ClkSettings}
ClkControlWord(ctrl) ==
    (CHOOSE w \in ClkControlWords : w.ctrl = ctrl).value

\* the enable bits at the start: all PLLs enabled, or some of them
ClkEnableAtStart == {PllShifts, {0, 4}, {3, 5}}
\* the control word at the start: fbdiv 40 or 80 with the other dividers 1,
\* the settings for 1000 MHz and for 2000 MHz
ClkCtrlAtStart ==
    {sg2042_pll_ctrl_encode([fbdiv |-> f, postdiv1 |-> 1, postdiv2 |-> 1,
                             refdiv |-> 1]) : f \in {40, 80}}
\* the bits of R_PLL_STAT that belong to MPLL
MpllStatusBits == {shift_status_lock(MPLL_SHIFT), shift_status_updating(MPLL_SHIFT)}

InitClk ==
    /\ pll_pc = "idle"
    /\ pll_req = u64(0)
    /\ pll_parent = u64(0)
    /\ pll_dz \in DivZeroOutcomes
    /\ pll_ret = 0
    /\ pll_best = PllCtrlZero
    /\ pll_early = FALSE
    /\ CodecIdle
    /\ MsiIdle
    /\ IrqIdle
    /\ clk_lock = 0
    /\ clk_enable \in ClkEnableAtStart
    /\ clk_status = {shift_status_lock(sh) : sh \in PllShifts}
    /\ clk_ctrl \in ClkCtrlAtStart
    /\ clk_cpu = [c \in Cpus |-> ClkCpuIdle]
    /\ ExtIdle

ClkUnchanged == UNCHANGED <<pll_vars, codec_vars, msi_vars, irq_vars, ext_vars>>

\* the clk core calls .set_rate of mpll_clock on CPU c
ClkCallSetRate(c, rate) ==
    /\ clk_cpu[c].pc = "idle"
    /\ clk_cpu' = [clk_cpu EXCEPT ![c] = [ClkCpuIdle EXCEPT !.pc = "lock",
                                                            !.rate = rate]]
    /\ UNCHANGED <<clk_lock, clk_enable, clk_status, clk_ctrl>>
    /\ ClkUnchanged

\* spin_lock_irqsave(pll->lock, flags)
ClkLock(c) ==
    /\ clk_cpu[c].pc = "lock"
    /\ clk_lock_acquired(clk_lock)
    /\ clk_lock' = c
    /\ clk_cpu' = [clk_cpu EXCEPT ![c].pc = pll_enable_entry(FALSE)]
    /\ UNCHANGED <<clk_enable, clk_status, clk_ctrl>>
    /\ ClkUnchanged

\* sg2042_pll_enable(pll, 0): value = readl(offset_enable)
ClkDisableRead(c) ==
    /\ clk_cpu[c].pc = "disable_read"
    /\ clk_cpu' = [clk_cpu EXCEPT ![c].pc = "disable_write",
                                  ![c].value = clk_enable]
    /\ UNCHANGED <<clk_lock, clk_enable, clk_status, clk_ctrl>>
    /\ ClkUnchanged

\* sg2042_pll_enable(pll, 0): writel(value & ~(1 << shift_enable)); it
\* returns 0, so "goto out" is not taken
ClkDisableWrite(c) ==
    /\ clk_cpu[c].pc = "disable_write"
    /\ clk_enable' = pll_enable_cleared(clk_cpu[c].value, MPLL_SHIFT)
    /\ clk_cpu' = [clk_cpu EXCEPT ![c].pc = "solve",
                                  ![c].log = Append(@, "disable")]
    /\ UNCHANGED <<clk_lock, clk_status, clk_ctrl>>
    /\ ClkUnchanged

\* ret = sg2042_get_pll_ctl_setting(&pctrl_table, rate, parent_rate) and the
\* "if (ret) goto out2;"; a divide fault inside the solver ends the call
\* where it is
ClkSolve(c) ==
    /\ clk_cpu[c].pc = "solve"
    /\ LET r == ClkSetting(clk_cpu[c].rate, pll_dz)
       IN  clk_cpu' = IF r.oops
                      THEN [clk_cpu EXCEPT ![c].pc = "oops"]
                      ELSE [clk_cpu EXCEPT ![c].pc = set_rate_goto(r.ret),
                                           ![c].ret = r.ret,
                                           ![c].pctrl_table = r.best]
    /\ UNCHANGED <<clk_lock, clk_enable, clk_status, clk_ctrl>>
    /\ ClkUnchanged

\* value = sg2042_pll_ctrl_encode(&pctrl_table);
\* writel(value, pll->base + pll->offset_ctrl)
ClkCtrlWrite(c) ==
    /\ clk_cpu[c].pc = "ctrl_write"
    /\ clk_ctrl' = ClkControlWord(clk_cpu[c].pctrl_table)
    /\ clk_cpu' = [clk_cpu EXCEPT ![c].pc = pll_enable_entry(TRUE),
                                  ![c].log = Append(@, "ctrl")]
    /\ UNCHANGED <<clk_lock, clk_enable, clk_status>>
    /\ ClkUnchanged

\* out2: sg2042_pll_enable(pll, 1), the first readl_poll_timeout_atomic: it
\* ends when the lock bit is set, or after 100 ms with the warning
ClkPollLock(c) ==
    /\ clk_cpu[c].pc = "poll_lock"
    /\ clk_cpu' = [clk_cpu EXCEPT
                      ![c].pc = "poll_updating",
                      ![c].log = Append(@, "poll_lock"),
                      ![c].warned = IF pll_poll_locked(clk_status, MPLL_SHIFT)
                                    THEN @ ELSE @ \cup {"not locked"}]
    /\ UNCHANGED <<clk_lock, clk_enable, clk_status, clk_ctrl>>
    /\ ClkUnchanged

\* the second readl_poll_timeout_atomic: it ends when the updating bit is
\* clear, or after 100 ms with the warning
ClkPollUpdating(c) ==
    /\ clk_cpu[c].pc = "poll_updating"
    /\ clk_cpu' = [clk_cpu EXCEPT
                      ![c].pc = "enable_read",
                      ![c].log = Append(@, "poll_updating"),
                      ![c].warned = IF pll_poll_updated(clk_status, MPLL_SHIFT)
                                    THEN @ ELSE @ \cup {"still updating"}]
    /\ UNCHANGED <<clk_lock, clk_enable, clk_status, clk_ctrl>>
    /\ ClkUnchanged

\* value = readl(offset_enable)
ClkEnableRead(c) ==
    /\ clk_cpu[c].pc = "enable_read"
    /\ clk_cpu' = [clk_cpu EXCEPT ![c].pc = "enable_write",
                                  ![c].value = clk_enable]
    /\ UNCHANGED <<clk_lock, clk_enable, clk_status, clk_ctrl>>
    /\ ClkUnchanged

\* writel(value | (1 << shift_enable))
ClkEnableWrite(c) ==
    /\ clk_cpu[c].pc = "enable_write"
    /\ clk_enable' = pll_enable_set(clk_cpu[c].value, MPLL_SHIFT)
    /\ clk_cpu' = [clk_cpu EXCEPT ![c].pc = "unlock",
                                  ![c].log = Append(@, "enable")]
    /\ UNCHANGED <<clk_lock, clk_status, clk_ctrl>>
    /\ ClkUnchanged

\* out: spin_unlock_irqrestore(pll->lock, flags)
ClkUnlock(c) ==
    /\ clk_cpu[c].pc = "unlock"
    /\ clk_lock' = 0
    /\ clk_cpu' = [clk_cpu EXCEPT ![c].pc = "return"]
    /\ UNCHANGED <<clk_enable, clk_status, clk_ctrl>>
    /\ ClkUnchanged

\* "return ret;"
ClkReturn(c) ==
    /\ clk_cpu[c].pc = "return"
    /\ clk_cpu' = [clk_cpu EXCEPT ![c] = ClkCpuIdle]
    /\ UNCHANGED <<clk_lock, clk_enable, clk_status, clk_ctrl>>
    /\ ClkUnchanged

\* the hardware sets or clears MPLL's lock and updating bits
ClkHwStatus(bits) ==
    /\ bits # clk_status \cap MpllStatusBits
    /\ clk_status' = (clk_status \ MpllStatusBits) \cup bits
    /\ UNCHANGED <<clk_lock, clk_enable, clk_ctrl, clk_cpu>>
    /\ ClkUnchanged

\* the steps of CPU c inside set_rate, from the lock on
ClkStep(c) ==
    \/ ClkLock(c)
    \/ ClkDisableRead(c)
    \/ ClkDisableWrite(c)
    \/ ClkSolve(c)
    \/ ClkCtrlWrite(c)
    \/ ClkPollLock(c)
    \/ ClkPollUpdating(c)
    \/ ClkEnableRead(c)
    \/ ClkEnableWrite(c)
    \/ ClkUnlock(c)
    \/ ClkReturn(c)

NextClk ==
    \/ \E c \in Cpus : \E rate \in ClkRates : ClkCallSetRate(c, rate)
    \/ \E c \in Cpus : ClkStep(c)
    \/ \E bits \in SUBSET MpllStatusBits : ClkHwStatus(bits)

SpecClk == InitClk /\ [][NextClk]_vars

\* a CPU inside set_rate runs on: a statement it can execute is executed in
\* the end (interrupts are off from spin_lock_irqsave on, and each poll is
\* bounded by its timeout)
SpecClkFair ==
    /\ SpecClk
    /\ \A c \in Cpus : WF_vars(ClkStep(c))

(***************************************************************************)
(* The top interrupt controller: the IRQ core allocates and frees slots,   *)
(* and the PLIC delivers the physical interrupts of the lines probe has    *)
(* chained to top_intc_irq_handler.                                        *)
(***************************************************************************)
\* the allocations the IRQ core holds at a time, the vector counts
\* requested, and what probe found: the first PLIC hwirq and the number of
\* "msi%d" interrupts
MaxTicLive == 2
TicNrIrqsRequested == {1, 3, 32}
TicPlicBases == {1, 352}
TicIrqNums == {3, 32}

\* the lines whose interrupts are followed: the first four and the last
TicLines == {0, 1, 2, 3, 31}

\* the other drivers at rest
TicOthersIdle == PllIdle /\ CodecIdle /\ MsiIdle /\ IrqIdle /\ ClkIdle /\ MuxIdle /\ IsrIdle /\ PdIdle /\ MangoIdle /\ FvIdle /\ DivIdle /\ PwmIdle /\ RrIdle /\ LmIdle

InitTic ==
    /\ TicOthersIdle
    /\ tic_data \in {TicProbed(base, irq_num) :
                        base \in TicPlicBases, irq_num \in TicIrqNums}
    /\ tic_irq_data = <<>>
    /\ tic_live = {}
    /\ tic_last = TicNoIrq

TicUnchanged ==
    UNCHANGED <<pll_vars, codec_vars, msi_vars, irq_vars, clk_vars, mux_vars, isr_vars,
                pd_vars,
                mg_vars,
                fv_vars,
                div_vars,
                pwm_vars,
                rr_vars,
                lm_vars>>

\* the IRQ core allocates nr_irqs virtual IRQs and calls .alloc
TicAlloc(nr_irqs) ==
    /\ Cardinality(tic_live) < MaxTicLive
    /\ LET virq == irq_domain_alloc_descs(VirqsOf(tic_live), nr_irqs)
           r == top_intc_domain_alloc(tic_data, tic_irq_data, virq, nr_irqs)
       IN  /\ tic_data' = [tic_data EXCEPT !.irq_bitmap = r.irq_bitmap,
                                           !.tic_to_plic = r.tic_to_plic]
           /\ tic_irq_data' = r.irq_data
           /\ tic_live' = IF r.ret = 0
                          THEN tic_live \cup {[virq |-> virq, nr_irqs |-> nr_irqs]}
                          ELSE tic_live
    /\ UNCHANGED tic_last
    /\ TicUnchanged

\* the IRQ core calls .free for an allocation it holds and drops its irq_data
TicFree(a) ==
    /\ a \in tic_live
    /\ tic_data' = [tic_data EXCEPT !.irq_bitmap =
                        top_intc_domain_free(tic_data, tic_irq_data,
                                             a.virq, a.nr_irqs)]
    /\ tic_irq_data' = irq_domain_free_irq_data(tic_irq_data, a.virq, a.nr_irqs)
    /\ tic_live' = tic_live \ {a}
    /\ UNCHANGED tic_last
    /\ TicUnchanged

\* the PLIC raises the chained interrupt of line "msi<line>"
TicIrq(line) ==
    /\ line < tic_data.irq_num
    /\ LET h == top_intc_irq_handler(tic_data, tic_irq_data,
                                     tic_data.plic_hwirqs[line])
       IN  tic_last' = [plic_hwirq |-> h.plic_hwirq, i |-> h.i,
                        raised |-> h.raised, clr |-> h.clr, ack |-> h.ack,
                        allocated |-> line \in tic_data.irq_bitmap,
                        mapped |-> irq_find_mapping(tic_irq_data, line)]
    /\ UNCHANGED <<tic_data, tic_irq_data, tic_live>>
    /\ TicUnchanged

NextTic ==
    \/ \E nr_irqs \in TicNrIrqsRequested : TicAlloc(nr_irqs)
    \/ \E a \in tic_live : TicFree(a)
    \/ \E line \in TicLines : TicIrq(line)

SpecTic == InitTic /\ [][NextTic]_vars

(***************************************************************************)
(* The mux clocks: the clk core notifies a writable mux before and after a *)
(* rate change, and consumers select parents when no rate change runs.     *)
(***************************************************************************)
\* the other drivers at rest
MuxOthersIdle == PllIdle /\ CodecIdle /\ MsiIdle /\ IrqIdle /\ ClkIdle /\ TicIdle /\ IsrIdle /\ PdIdle /\ MangoIdle /\ FvIdle /\ DivIdle /\ PwmIdle /\ RrIdle /\ LmIdle

InitMux ==
    /\ MuxOthersIdle
    /\ mux_drv \in {"part_001", "part_002"}
    /\ mux_reg \in SUBSET MuxAllShifts
    /\ mux_clk = [m \in MuxShifts |-> MuxClkIdle]

MuxUnchanged ==
    UNCHANGED <<pll_vars, codec_vars, msi_vars, irq_vars, clk_vars, tic_vars, isr_vars,
                pd_vars,
                mg_vars,
                fv_vars,
                div_vars,
                pwm_vars,
                rr_vars,
                lm_vars>>

\* the clk core sends PRE_RATE_CHANGE to the notifier of mux m
MuxPre(m) ==
    /\ mux_clk[m].pc # "pre"
    /\ LET r == sg2042_mux_notifier_cb(mux_drv, "PRE_RATE_CHANGE", mux_reg,
                                       mux_clk[m].original_index, m)
       IN  /\ mux_reg' = r.reg
           /\ mux_clk' = [mux_clk EXCEPT ![m] =
                             [original_index |-> r.original_index, pc |-> "pre",
                              before |-> clk_mux_get_parent(mux_reg, m)]]
    /\ UNCHANGED mux_drv
    /\ MuxUnchanged

\* the clk core sends POST_RATE_CHANGE to the notifier of mux m
MuxPost(m) ==
    /\ mux_clk[m].pc = "pre"
    /\ LET r == sg2042_mux_notifier_cb(mux_drv, "POST_RATE_CHANGE", mux_reg,
                                       mux_clk[m].original_index, m)
       IN  /\ mux_reg' = r.reg
           /\ mux_clk' = [mux_clk EXCEPT ![m].original_index = r.original_index,
                                         ![m].pc = "post"]
    /\ UNCHANGED mux_drv
    /\ MuxUnchanged

\* the clk core sends ABORT_RATE_CHANGE to the notifier of mux m: a notifier
\* of the subtree refused the PRE_RATE_CHANGE
MuxAbort(m) ==
    /\ mux_clk[m].pc = "pre"
    /\ LET r == sg2042_mux_notifier_cb(mux_drv, "ABORT_RATE_CHANGE", mux_reg,
                                       mux_clk[m].original_index, m)
       IN  /\ mux_reg' = r.reg
           /\ mux_clk' = [mux_clk EXCEPT ![m].original_index = r.original_index,
                                         ![m].pc = "abort"]
    /\ UNCHANGED mux_drv
    /\ MuxUnchanged

\* a consumer's clk_set_parent on mux m, which the clk core's prepare lock
\* keeps out of a running rate change
MuxSetParent(m, index) ==
    /\ \A n \in MuxShifts : mux_clk[n].pc # "pre"
    /\ mux_reg' = clk_mux_set_parent(mux_reg, m, index)
    /\ mux_clk' = [mux_clk EXCEPT ![m].pc = "idle"]
    /\ UNCHANGED mux_drv
    /\ MuxUnchanged

NextMux ==
    \/ \E m \in MuxShifts : MuxPre(m)
    \/ \E m \in MuxShifts : MuxPost(m)
    \/ \E m \in MuxShifts : MuxAbort(m)
    \/ \E m \in MuxShifts, index \in {0, 1} : MuxSetParent(m, index)

SpecMux == InitMux /\ [][NextMux]_vars

(***************************************************************************)
(* The chained MSI ISRs: a controller's MSI-pending status bit is set by   *)
(* the hardware, and each controller's ISR runs on the CPU its interrupt   *)
(* is delivered to, one register access at a time.                         *)
(***************************************************************************)
\* the other drivers at rest
IsrOthersIdle ==
    PllIdle /\ CodecIdle /\ MsiIdle /\ IrqIdle /\ ClkIdle /\ TicIdle /\ MuxIdle /\ PdIdle /\ MangoIdle /\ FvIdle /\ DivIdle /\ PwmIdle /\ RrIdle /\ LmIdle

InitIsr ==
    /\ IsrOthersIdle
    \* bit 0 of REG0804 belongs to neither link
    /\ isr_reg0804 \in SUBSET {0}
    /\ isr_reg0810 = {}
    /\ isr_link = [l \in Links |-> IsrLinkIdle]

IsrUnchanged ==
    UNCHANGED <<pll_vars, codec_vars, msi_vars, irq_vars, clk_vars, tic_vars, mux_vars,
                pd_vars,
                mg_vars,
                fv_vars,
                div_vars,
                pwm_vars,
                rr_vars,
                lm_vars>>

\* the hardware receives an MSI on link l and sets its status bit
IsrHwMsiIn(l) ==
    /\ st_msi_in_bit(l) \notin isr_reg0810
    /\ isr_reg0810' = isr_reg0810 \cup {st_msi_in_bit(l)}
    /\ UNCHANGED <<isr_reg0804, isr_link>>
    /\ IsrUnchanged

\* the ISR of link l is entered: chained_irq_enter
IsrEnter(l) ==
    /\ isr_link[l].pc = "idle"
    /\ isr_link' = [isr_link EXCEPT ![l] =
                       [pc |-> "read_status", status |-> {},
                        log |-> <<"enter">>, read0804 |-> {},
                        read0810 |-> {}]]
    /\ UNCHANGED <<isr_reg0804, isr_reg0810>>
    /\ IsrUnchanged

\* regmap_read(pcie->syscon, CDNS_PCIE_IRS_REG0810, &status) and the test of
\* the link's status bit
IsrReadStatus(l) ==
    /\ isr_link[l].pc = "read_status"
    /\ isr_link' = [isr_link EXCEPT
                       ![l].status = isr_reg0810,
                       ![l].read0810 = isr_reg0810,
                       ![l].pc = IF msi_in_pending(isr_reg0810, l)
                                 THEN "read_clr" ELSE "exit"]
    /\ UNCHANGED <<isr_reg0804, isr_reg0810>>
    /\ IsrUnchanged

\* regmap_read(pcie->syscon, CDNS_PCIE_IRS_REG0804, &status)
IsrReadClr(l) ==
    /\ isr_link[l].pc = "read_clr"
    /\ isr_link' = [isr_link EXCEPT ![l].status = isr_reg0804,
                                    ![l].read0804 = isr_reg0804,
                                    ![l].pc = "write_set"]
    /\ UNCHANGED <<isr_reg0804, isr_reg0810>>
    /\ IsrUnchanged

\* the first regmap_write to REG0804, with the clear bit set; the hardware
\* drops the link's status bit
IsrWriteSet(l) ==
    /\ isr_link[l].pc = "write_set"
    /\ LET status == msi_in_clr_set(isr_link[l].status, l)
       IN  /\ isr_reg0804' = status
           /\ isr_link' = [isr_link EXCEPT
                              ![l].status = status,
                              ![l].log = Append(@, "clr_1"),
                              ![l].pc = "write_clear"]
    /\ isr_reg0810' = isr_reg0810 \ {st_msi_in_bit(l)}
    /\ IsrUnchanged

\* the second regmap_write to REG0804, with the clear bit cleared
IsrWriteClear(l) ==
    /\ isr_link[l].pc = "write_clear"
    /\ LET status == msi_in_clr_cleared(isr_link[l].status, l)
       IN  /\ isr_reg0804' = status
           /\ isr_link' = [isr_link EXCEPT
                              ![l].status = status,
                              ![l].log = Append(@, "clr_0"),
                              ![l].pc = "scan"]
    /\ UNCHANGED isr_reg0810
    /\ IsrUnchanged

\* sg2042_pcie_handle_msi_irq(pcie): the scan of the link's shared region
IsrScan(l) ==
    /\ isr_link[l].pc = "scan"
    /\ isr_link' = [isr_link EXCEPT ![l].log = Append(@, "scan"),
                                    ![l].pc = "exit"]
    /\ UNCHANGED <<isr_reg0804, isr_reg0810>>
    /\ IsrUnchanged

\* chained_irq_exit, and the return
IsrExit(l) ==
    /\ isr_link[l].pc = "exit"
    /\ isr_link' = [isr_link EXCEPT ![l].log = Append(@, "exit"),
                                    ![l].pc = "idle"]
    /\ UNCHANGED <<isr_reg0804, isr_reg0810>>
    /\ IsrUnchanged

NextIsr ==
    \E l \in Links :
        \/ IsrHwMsiIn(l)
        \/ IsrEnter(l)
        \/ IsrReadStatus(l)
        \/ IsrReadClr(l)
        \/ IsrWriteSet(l)
        \/ IsrWriteClear(l)
        \/ IsrScan(l)
        \/ IsrExit(l)

SpecIsr == InitIsr /\ [][NextIsr]_vars

(***************************************************************************)
(* The post-divider lookup: a target rate and a (refdiv, fbdiv) are drawn, *)
(* sg2042_pll_get_postdiv_1_2 is applied, and the solver's loop body runs  *)
(* for the pair with an empty best.                                        *)
(***************************************************************************)
\* the other drivers at rest
PdOthersIdle ==
    PllIdle /\ CodecIdle /\ MsiIdle /\ IrqIdle /\ ClkIdle /\ TicIdle /\ MuxIdle /\ IsrIdle /\ MangoIdle /\ FvIdle /\ DivIdle /\ PwmIdle /\ RrIdle /\ LmIdle

\* the target rates, and the dividers: every fbdiv of the search and the
\* refdiv 1, 2 and 3
PdRates == {Hz(16, 0), Hz(100, 0), Hz(400, 0), Hz(3200, 0)}
PdFbdivs == FBDIV_MIN..FBDIV_MAX
PdRefdivs == {1, 2, 3}

InitPd ==
    /\ PdOthersIdle
    /\ pd_pc = "call"
    /\ pd_in \in [rate : PdRates, prate : {PLL_FREF_SG2042}, fbdiv : PdFbdivs,
                  refdiv : PdRefdivs, dz : DivZeroOutcomes]
    /\ pd_out = PdNoOut
    /\ pd_pass = PdNoPass

PdUnchanged ==
    UNCHANGED <<pll_vars, codec_vars, msi_vars, irq_vars, clk_vars, tic_vars, mux_vars, isr_vars,
                mg_vars,
                fv_vars,
                div_vars,
                pwm_vars,
                rr_vars,
                lm_vars>>

\* ret = sg2042_pll_get_postdiv_1_2(req_rate, parent_rate, fbdiv, refdiv,
\* &postdiv1, &postdiv2)
PdLookup ==
    /\ pd_pc = "call"
    /\ pd_out' = sg2042_pll_get_postdiv_1_2(pd_in.rate, pd_in.prate,
                                            pd_in.fbdiv, pd_in.refdiv)
    /\ pd_pc' = "looked_up"
    /\ UNCHANGED <<pd_in, pd_pass>>
    /\ PdUnchanged

\* the body of the fbdiv loop for the pair, entered with the best of memset
PdLoopBody ==
    /\ pd_pc = "looked_up"
    /\ pd_pass' = pll_fbdiv_body(PllCtrlZero, pd_in.rate, pd_in.prate,
                                 pd_in.refdiv, pd_in.fbdiv, pd_in.dz)
    /\ pd_pc' = "passed"
    /\ UNCHANGED <<pd_in, pd_out>>
    /\ PdUnchanged

NextPd == PdLookup \/ PdLoopBody

SpecPd == InitPd /\ [][NextPd]_vars

(***************************************************************************)
(* The regmap-based driver: the clk core calls mango_clk_pll_set_rate on   *)
(* any CPU.  A step is one statement of mango_clk_pll_set_rate or of the   *)
(* mango_pll_enable it calls, the test at the head of a while loop and the *)
(* loop's body being two steps; the hardware changes the status register   *)
(* at any time, and jiffies passes a loop's deadline at any time.          *)
(***************************************************************************)
\* the rates requested: 100 kHz (every candidate is out of the post-divider
\* table), 400 MHz (the first candidate is exact) and 1000 MHz (the first
\* candidates have the post-divider product 0)
MangoRates == {Hz(0, 100000), Hz(400, 0), Hz(1000, 0)}

\* what __get_pll_ctl_setting leaves in pctrl_table for each rate requested,
\* by what a division by zero does in the build
MangoSettings ==
    {[rate |-> a[1], dz |-> a[2],
      r |-> mango_get_pll_ctl_setting(a[1], PLL_FREF_SG2042, a[2])] :
         a \in MangoRates \X DivZeroOutcomes}
MangoSetting(rate, dz) ==
    (CHOOSE t \in MangoSettings : t.rate = rate /\ t.dz = dz).r

\* the bits of the status register that belong to the PLL
MangoStatusBits == {PLL_STAT_LOCK_OFFSET + MangoPllId, MangoPllId}

MgOthersIdle ==
    CodecIdle /\ MsiIdle /\ IrqIdle /\ ClkIdle /\ TicIdle /\ MuxIdle /\ IsrIdle /\ PdIdle /\ FvIdle /\ DivIdle /\ PwmIdle /\ RrIdle /\ LmIdle

InitMango ==
    /\ pll_pc = "idle"
    /\ pll_req = u64(0)
    /\ pll_parent = u64(0)
    /\ pll_dz \in DivZeroOutcomes
    /\ pll_ret = 0
    /\ pll_best = PllCtrlZero
    /\ pll_early = FALSE
    /\ MgOthersIdle
    /\ MangoIdle

MgUnchanged ==
    UNCHANGED <<pll_vars, codec_vars, msi_vars, irq_vars, clk_vars, tic_vars, mux_vars, isr_vars, pd_vars,
                fv_vars,
                div_vars,
                pwm_vars,
                rr_vars,
                lm_vars>>

\* the clk core calls .set_rate on CPU c; memset(&pctrl_table, 0, ...)
MangoCallSetRate(c, rate) ==
    /\ mg_cpu[c].pc = "idle"
    /\ mg_cpu' = [mg_cpu EXCEPT ![c] = [MangoCpuIdle EXCEPT !.pc = "lock",
                                                            !.rate = rate]]
    /\ UNCHANGED <<mg_lock, mg_enable, mg_status, mg_ctrl>>
    /\ MgUnchanged

\* spin_lock_irqsave(mango_pll->lock, flags)
MangoLock(c) ==
    /\ mg_cpu[c].pc = "lock"
    /\ mg_lock = 0
    /\ mg_lock' = c
    /\ mg_cpu' = [mg_cpu EXCEPT ![c].pc = "disable_read"]
    /\ UNCHANGED <<mg_enable, mg_status, mg_ctrl>>
    /\ MgUnchanged

\* mango_pll_enable(map, pll, 0): regmap_read(map, pll->enable_offset, &value)
MangoDisableRead(c) ==
    /\ mg_cpu[c].pc = "disable_read"
    /\ mg_cpu' = [mg_cpu EXCEPT ![c].pc = "disable_write",
                                ![c].value = mg_enable]
    /\ UNCHANGED <<mg_lock, mg_enable, mg_status, mg_ctrl>>
    /\ MgUnchanged

\* regmap_write(map, pll->enable_offset, value & (~(1 << id))); it returns
\* 0, so the first "goto out" is not taken
MangoDisableWrite(c) ==
    /\ mg_cpu[c].pc = "disable_write"
    /\ mg_enable' = mg_cpu[c].value \ {MangoPllId}
    /\ mg_cpu' = [mg_cpu EXCEPT ![c].pc = "solve"]
    /\ UNCHANGED <<mg_lock, mg_status, mg_ctrl>>
    /\ MgUnchanged

\* mango_pll_read(...), __get_pll_ctl_setting(&pctrl_table, rate,
\* parent_rate) and the "if (!pctrl_table.freq) goto out;"; a divide fault
\* inside the solver ends the call where it is
MangoSolve(c) ==
    /\ mg_cpu[c].pc = "solve"
    /\ LET r == MangoSetting(mg_cpu[c].rate, pll_dz)
       IN  mg_cpu' = IF r.oops
                     THEN [mg_cpu EXCEPT ![c].pc = "oops"]
                     ELSE [mg_cpu EXCEPT ![c].pc = mango_set_rate_goto(r.best),
                                         ![c].pctrl_table = r.best]
    /\ UNCHANGED <<mg_lock, mg_enable, mg_status, mg_ctrl>>
    /\ MgUnchanged

\* value = TOP_PLL_CTRL(...); mango_pll_write(syscon_top, id, value)
MangoCtrlWrite(c) ==
    /\ mg_cpu[c].pc = "ctrl_write"
    /\ LET t == mg_cpu[c].pctrl_table
       IN  mg_ctrl' = TOP_PLL_CTRL(t.fbdiv, t.postdiv1, t.postdiv2, t.refdiv)
    /\ mg_cpu' = [mg_cpu EXCEPT ![c].pc = "lock_read"]
    /\ UNCHANGED <<mg_lock, mg_enable, mg_status>>
    /\ MgUnchanged

\* mango_pll_enable(map, pll, 1): enter = jiffies;
\* regmap_read(map, pll->status_offset, &value)
MangoLockRead(c) ==
    /\ mg_cpu[c].pc = "lock_read"
    /\ mg_cpu' = [mg_cpu EXCEPT ![c].pc = "lock_test",
                                ![c].expired = FALSE,
                                ![c].value = mg_status]
    /\ UNCHANGED <<mg_lock, mg_enable, mg_status, mg_ctrl>>
    /\ MgUnchanged

\* while (!((value >> (PLL_STAT_LOCK_OFFSET + id)) & 0x1))
MangoLockTest(c) ==
    /\ mg_cpu[c].pc = "lock_test"
    /\ mg_cpu' = [mg_cpu EXCEPT
                     ![c].pc = mango_lock_loop(mg_cpu[c].value, MangoPllId)]
    /\ UNCHANGED <<mg_lock, mg_enable, mg_status, mg_ctrl>>
    /\ MgUnchanged

\* the body of the first loop: regmap_read(map, pll->status_offset, &value);
\* if (time_after(jiffies, enter + HZ / 10)) pr_warn("%s not locked\n")
MangoLockBody(c) ==
    /\ mg_cpu[c].pc = "lock_body"
    /\ mg_cpu' = [mg_cpu EXCEPT
                     ![c].pc = "lock_test",
                     ![c].value = mg_status,
                     ![c].warned = IF mg_cpu[c].expired
                                   THEN @ \cup {"not locked"} ELSE @]
    /\ UNCHANGED <<mg_lock, mg_enable, mg_status, mg_ctrl>>
    /\ MgUnchanged

\* enter = jiffies; regmap_read(map, pll->status_offset, &value)
MangoUpdatingRead(c) ==
    /\ mg_cpu[c].pc = "updating_read"
    /\ mg_cpu' = [mg_cpu EXCEPT ![c].pc = "updating_test",
                                ![c].expired = FALSE,
                                ![c].value = mg_status]
    /\ UNCHANGED <<mg_lock, mg_enable, mg_status, mg_ctrl>>
    /\ MgUnchanged

\* while (((value >> id) & 0x1))
MangoUpdatingTest(c) ==
    /\ mg_cpu[c].pc = "updating_test"
    /\ mg_cpu' = [mg_cpu EXCEPT
                     ![c].pc = mango_updating_loop(mg_cpu[c].value, MangoPllId)]
    /\ UNCHANGED <<mg_lock, mg_enable, mg_status, mg_ctrl>>
    /\ MgUnchanged

\* the body of the second loop: regmap_read(map, pll->status_offset,
\* &value); if (time_after(jiffies, enter + HZ / 10))
\* pr_warn("%s still updating\n")
MangoUpdatingBody(c) ==
    /\ mg_cpu[c].pc = "updating_body"
    /\ mg_cpu' = [mg_cpu EXCEPT
                     ![c].pc = "updating_test",
                     ![c].value = mg_status,
                     ![c].warned = IF mg_cpu[c].expired
                                   THEN @ \cup {"still updating"} ELSE @]
    /\ UNCHANGED <<mg_lock, mg_enable, mg_status, mg_ctrl>>
    /\ MgUnchanged

\* regmap_read(map, pll->enable_offset, &value)
MangoEnableRead(c) ==
    /\ mg_cpu[c].pc = "enable_read"
    /\ mg_cpu' = [mg_cpu EXCEPT ![c].pc = "enable_write",
                                ![c].value = mg_enable]
    /\ UNCHANGED <<mg_lock, mg_enable, mg_status, mg_ctrl>>
    /\ MgUnchanged

\* regmap_write(map, pll->enable_offset, value | (1 << id))
MangoEnableWrite(c) ==
    /\ mg_cpu[c].pc = "enable_write"
    /\ mg_enable' = mg_cpu[c].value \cup {MangoPllId}
    /\ mg_cpu' = [mg_cpu EXCEPT ![c].pc = "unlock"]
    /\ UNCHANGED <<mg_lock, mg_status, mg_ctrl>>
    /\ MgUnchanged

\* out: spin_unlock_irqrestore(mango_pll->lock, flags)
MangoUnlock(c) ==
    /\ mg_cpu[c].pc = "unlock"
    /\ mg_lock' = 0
    /\ mg_cpu' = [mg_cpu EXCEPT ![c].pc = "return"]
    /\ UNCHANGED <<mg_enable, mg_status, mg_ctrl>>
    /\ MgUnchanged

\* "return ret;"
MangoReturn(c) ==
    /\ mg_cpu[c].pc = "return"
    /\ mg_cpu' = [mg_cpu EXCEPT ![c] = MangoCpuIdle]
    /\ UNCHANGED <<mg_lock, mg_enable, mg_status, mg_ctrl>>
    /\ MgUnchanged

\* jiffies passes enter + HZ / 10 while CPU c is in one of the two loops
MangoTimeout(c) ==
    /\ mg_cpu[c].pc \in {"lock_test", "lock_body",
                         "updating_test", "updating_body"}
    /\ ~mg_cpu[c].expired
    /\ mg_cpu' = [mg_cpu EXCEPT ![c].expired = TRUE]
    /\ UNCHANGED <<mg_lock, mg_enable, mg_status, mg_ctrl>>
    /\ MgUnchanged

\* the hardware sets or clears the PLL's lock and updating bits
MangoHwStatus(bits) ==
    /\ bits # mg_status \cap MangoStatusBits
    /\ mg_status' = (mg_status \ MangoStatusBits) \cup bits
    /\ UNCHANGED <<mg_lock, mg_enable, mg_ctrl, mg_cpu>>
    /\ MgUnchanged

\* the steps of CPU c inside mango_clk_pll_set_rate, from the lock on
MangoStep(c) ==
    \/ MangoLock(c)
    \/ MangoDisableRead(c)
    \/ MangoDisableWrite(c)
    \/ MangoSolve(c)
    \/ MangoCtrlWrite(c)
    \/ MangoLockRead(c)
    \/ MangoLockTest(c)
    \/ MangoLockBody(c)
    \/ MangoUpdatingRead(c)
    \/ MangoUpdatingTest(c)
    \/ MangoUpdatingBody(c)
    \/ MangoEnableRead(c)
    \/ MangoEnableWrite(c)
    \/ MangoUnlock(c)
    \/ MangoReturn(c)

NextMango ==
    \/ \E c \in Cpus : \E rate \in MangoRates : MangoCallSetRate(c, rate)
    \/ \E c \in Cpus : MangoStep(c)
    \/ \E c \in Cpus : MangoTimeout(c)
    \/ \E bits \in SUBSET MangoStatusBits : MangoHwStatus(bits)

SpecMango == InitMango /\ [][NextMango]_vars

\* a CPU inside mango_clk_pll_set_rate runs on (interrupts are off from
\* spin_lock_irqsave on), and jiffies, advanced by the timer of another CPU,
\* passes every deadline; the hardware owes nothing
SpecMangoFair ==
    /\ SpecMango
    /\ \A c \in Cpus : WF_vars(MangoStep(c))
    /\ \A c \in Cpus : WF_vars(MangoTimeout(c))

(***************************************************************************)
(* The VCO frequency of __mango_get_pll_ctl_setting and                    *)
(* __sg2042_get_pll_ctl_setting (src/unnamed/part_001), for the 25 MHz     *)
(* parent and every (refdiv, fbdiv) of the two loops.                      *)
(***************************************************************************)
FvOthersIdle ==
    PllIdle /\ CodecIdle /\ MsiIdle /\ IrqIdle /\ ClkIdle /\ TicIdle /\ MuxIdle /\ IsrIdle /\ PdIdle /\ MangoIdle /\ DivIdle /\ PwmIdle /\ RrIdle /\ LmIdle

InitFv ==
    /\ FvOthersIdle
    /\ fv_pc = "call"
    /\ fv_in \in [fref : {PLL_FREF_SG2042},
                  fbdiv : MANGO_FBDIV_MIN..MANGO_FBDIV_MAX,
                  refdiv : MANGO_REFDIV_MIN..MANGO_REFDIV_MAX]
    /\ fv_out = u64(0)

FvUnchanged ==
    UNCHANGED <<pll_vars, codec_vars, msi_vars, irq_vars, clk_vars, tic_vars, mux_vars, isr_vars, pd_vars, mg_vars,
                div_vars,
                pwm_vars,
                rr_vars,
                lm_vars>>

\* foutvco = fref * fbdiv / refdiv
FvCompute ==
    /\ fv_pc = "call"
    /\ fv_out' = mango_foutvco(fv_in.fref, fv_in.fbdiv, fv_in.refdiv)
    /\ fv_pc' = "done"
    /\ UNCHANGED fv_in
    /\ FvUnchanged

NextFv == FvCompute

SpecFv == InitFv /\ [][NextFv]_vars

(***************************************************************************)
(* The divider clocks: the clk core calls sg2042_clk_divider_set_rate on   *)
(* any CPU, and enables or disables the gate clock whose bit is in the     *)
(* same register.  A step is one register access of set_rate.              *)
(***************************************************************************)
\* shift and width of writable dividers of sg2042_div_clks: all have shift
\* 16, the narrowest are 5 bits wide and the widest 16; none has
\* CLK_DIVIDER_HIWORD_MASK
DivClks == [shift : {16}, width : {5, 16}, hiword : {FALSE}]

\* the register at the start: the assert bit, the flag bit, and bits inside
\* and outside the fields (the gate bit is set and cleared by DivGate)
DivRegAtStart == SUBSET {0, 1, 3, 20, 31}

\* what divider_get_val returns: a factor that fits the field
DivValues(width) == {0, 21, Pow2(width) - 1}

\* the bit of the gate clock registered on the divider's register
DivGateBit == 4

DivOthersIdle ==
    PllIdle /\ CodecIdle /\ MsiIdle /\ IrqIdle /\ ClkIdle /\ TicIdle /\ MuxIdle /\ IsrIdle /\ PdIdle /\ MangoIdle /\ FvIdle /\ PwmIdle /\ RrIdle /\ LmIdle

InitDiv ==
    /\ DivOthersIdle
    /\ div_lock = 0
    /\ div_reg \in DivRegAtStart
    /\ div_clk \in DivClks
    /\ div_cpu = [c \in DivCpus |-> DivCpuIdle]

DivUnchanged ==
    UNCHANGED <<pll_vars, codec_vars, msi_vars, irq_vars, clk_vars, tic_vars, mux_vars, isr_vars, pd_vars, mg_vars, fv_vars,
                pwm_vars,
                rr_vars,
                lm_vars>>

\* value = divider_get_val(rate, parent_rate, NULL, width, div_flags)
DivCallSetRate(c, value) ==
    /\ div_cpu[c].pc = "idle"
    /\ div_cpu' = [div_cpu EXCEPT ![c] = [DivCpuIdle EXCEPT !.pc = "lock",
                                                            !.value = value]]
    /\ UNCHANGED <<div_lock, div_reg, div_clk>>
    /\ DivUnchanged

\* spin_lock_irqsave(divider->lock, flags)
DivLock(c) ==
    /\ div_cpu[c].pc = "lock"
    /\ div_lock = 0
    /\ div_lock' = c
    /\ div_cpu' = [div_cpu EXCEPT ![c].pc = "read"]
    /\ UNCHANGED <<div_reg, div_clk>>
    /\ DivUnchanged

\* val = readl(divider->reg); val &= ~0x1;
DivRead(c) ==
    /\ div_cpu[c].pc = "read"
    /\ div_cpu' = [div_cpu EXCEPT ![c].pc = "assert",
                                  ![c].before = div_reg,
                                  ![c].val = divider_assert(div_reg)]
    /\ UNCHANGED <<div_lock, div_reg, div_clk>>
    /\ DivUnchanged

\* writel(val, divider->reg)
DivAssert(c) ==
    /\ div_cpu[c].pc = "assert"
    /\ div_reg' = div_cpu[c].val
    /\ div_cpu' = [div_cpu EXCEPT ![c].pc = "field",
                                  ![c].log = Append(@, div_cpu[c].val)]
    /\ UNCHANGED <<div_lock, div_clk>>
    /\ DivUnchanged

\* the if / else with the second readl, "val |= value << divider->shift;
\* val |= 1 << 3; writel(val, divider->reg);"
DivField(c) ==
    /\ div_cpu[c].pc = "field"
    /\ LET val == divider_field(div_reg, div_cpu[c].value, div_clk.shift,
                                div_clk.width, div_clk.hiword)
       IN  /\ div_reg' = val
           /\ div_cpu' = [div_cpu EXCEPT ![c].pc = "deassert",
                                         ![c].val = val,
                                         ![c].log = Append(@, val)]
    /\ UNCHANGED <<div_lock, div_clk>>
    /\ DivUnchanged

\* val |= 1; writel(val, divider->reg)
DivDeassert(c) ==
    /\ div_cpu[c].pc = "deassert"
    /\ LET val == divider_deassert(div_cpu[c].val)
       IN  /\ div_reg' = val
           /\ div_cpu' = [div_cpu EXCEPT ![c].pc = "unlock",
                                         ![c].val = val,
                                         ![c].log = Append(@, val)]
    /\ UNCHANGED <<div_lock, div_clk>>
    /\ DivUnchanged

\* spin_unlock_irqrestore(divider->lock, flags)
DivUnlock(c) ==
    /\ div_cpu[c].pc = "unlock"
    /\ div_lock' = 0
    /\ div_cpu' = [div_cpu EXCEPT ![c].pc = "return"]
    /\ UNCHANGED <<div_reg, div_clk>>
    /\ DivUnchanged

\* "return 0;"
DivReturn(c) ==
    /\ div_cpu[c].pc = "return"
    /\ div_cpu' = [div_cpu EXCEPT ![c] = DivCpuIdle]
    /\ UNCHANGED <<div_lock, div_reg, div_clk>>
    /\ DivUnchanged

\* clk_gate_ops enable / disable of the gate on the same register: a
\* read-modify-write of the gate bit inside sg2042_clk_lock
DivGate(on) ==
    /\ div_lock = 0
    /\ div_reg' = IF on THEN div_reg \cup {DivGateBit}
                        ELSE div_reg \ {DivGateBit}
    /\ div_reg' # div_reg
    /\ UNCHANGED <<div_lock, div_clk, div_cpu>>
    /\ DivUnchanged

NextDiv ==
    \/ \E c \in DivCpus : \E value \in DivValues(div_clk.width) :
           DivCallSetRate(c, value)
    \/ \E c \in DivCpus : DivLock(c)
    \/ \E c \in DivCpus : DivRead(c)
    \/ \E c \in DivCpus : DivAssert(c)
    \/ \E c \in DivCpus : DivField(c)
    \/ \E c \in DivCpus : DivDeassert(c)
    \/ \E c \in DivCpus : DivUnlock(c)
    \/ \E c \in DivCpus : DivReturn(c)
    \/ \E on \in BOOLEAN : DivGate(on)

SpecDiv == InitDiv /\ [][NextDiv]_vars

(***************************************************************************)
(* The PWM controller: the PWM core calls pwm_sg2042_apply for one channel *)
(* at a time, under the chip's lock.  A step is the part of apply before   *)
(* pwm_sg2042_config, one writel of pwm_sg2042_config, or the return.      *)
(***************************************************************************)
\* the base clock: 100 MHz (probe refuses 0 and rates above NSEC_PER_SEC)
PwmClkRates == {100 * MHZ}

\* period and duty_cycle in ns: 1 us; and 50 s, which is more than U32_MAX
\* cycles of the base clock
PwmPeriods == {u64(1000), <<0, 50000, 0>>}
PwmDutyCycles == {u64(0), <<0, 50000, 0>>}

\* the states the PWM core passes: duty_cycle <= period is checked by the
\* core only for some callers, so every combination is tried
PwmStates ==
    [enabled : BOOLEAN,
     polarity : {"PWM_POLARITY_NORMAL", "PWM_POLARITY_INVERSED"},
     period : PwmPeriods, duty_cycle : PwmDutyCycles]

PwmOthersIdle ==
    PllIdle /\ CodecIdle /\ MsiIdle /\ IrqIdle /\ ClkIdle /\ TicIdle /\ MuxIdle /\ IsrIdle /\ PdIdle /\ MangoIdle /\ FvIdle /\ DivIdle /\ RrIdle /\ LmIdle

InitPwm ==
    /\ PwmOthersIdle
    /\ pwm_regs = PwmRegsAtReset
    /\ pwm_clk \in PwmClkRates
    /\ pwm_call = PwmNoCall

PwmUnchanged ==
    UNCHANGED <<pll_vars, codec_vars, msi_vars, irq_vars, clk_vars, tic_vars, mux_vars, isr_vars, pd_vars, mg_vars, fv_vars, div_vars,
                rr_vars,
                lm_vars>>

\* pwm_sg2042_apply(chip, pwm, state) up to the call of pwm_sg2042_config
PwmCallApply(hwpwm, state) ==
    /\ pwm_call.pc = "idle"
    /\ LET out == pwm_sg2042_apply(state, pwm_clk)
       IN  pwm_call' = [pc |-> IF out.config THEN "write_period" ELSE "return",
                        hwpwm |-> hwpwm, state |-> state,
                        before |-> pwm_regs, out |-> out]
    /\ UNCHANGED <<pwm_regs, pwm_clk>>
    /\ PwmUnchanged

\* pwm_sg2042_config: "writel(period, base + SG2042_PERIOD(chan))"
PwmWritePeriod ==
    /\ pwm_call.pc = "write_period"
    /\ pwm_regs' = pwm_write_period(pwm_regs, pwm_call.hwpwm,
                                    pwm_call.out.period)
    /\ pwm_call' = [pwm_call EXCEPT !.pc = "write_hlperiod"]
    /\ UNCHANGED pwm_clk
    /\ PwmUnchanged

\* pwm_sg2042_config: "writel(hlperiod, base + SG2042_HLPERIOD(chan))"
PwmWriteHlperiod ==
    /\ pwm_call.pc = "write_hlperiod"
    /\ pwm_regs' = pwm_write_hlperiod(pwm_regs, pwm_call.hwpwm,
                                      pwm_call.out.hlperiod)
    /\ pwm_call' = [pwm_call EXCEPT !.pc = "return"]
    /\ UNCHANGED pwm_clk
    /\ PwmUnchanged

\* "return 0" or "return -EINVAL": the caller has seen the result
PwmReturn ==
    /\ pwm_call.pc = "return"
    /\ pwm_call' = PwmNoCall
    /\ UNCHANGED <<pwm_regs, pwm_clk>>
    /\ PwmUnchanged

NextPwm ==
    \/ \E hwpwm \in PwmChannels, state \in PwmStates :
          PwmCallApply(hwpwm, state)
    \/ PwmWritePeriod
    \/ PwmWriteHlperiod
    \/ PwmReturn

SpecPwm == InitPwm /\ [][NextPwm]_vars

(***************************************************************************)
(* A rate change as the clk core makes it: sg2042_clk_pll_round_rate,      *)
(* then sg2042_clk_pll_set_rate with the same rate and parent, then        *)
(* sg2042_clk_pll_recalc_rate.  A step is one of the three callbacks.      *)
(***************************************************************************)
RrOthersIdle ==
    PllIdle /\ CodecIdle /\ MsiIdle /\ IrqIdle /\ ClkIdle /\ TicIdle /\ MuxIdle /\ IsrIdle /\ PdIdle /\ MangoIdle /\ FvIdle /\ DivIdle /\ PwmIdle /\ LmIdle

InitRr ==
    /\ RrOthersIdle
    /\ rr_pc = "call"
    /\ rr_in \in [rate : TargetRates, prate : {PLL_FREF_SG2042},
                  dz : DivZeroOutcomes]
    /\ rr_reg \in ClkCtrlAtStart
    /\ rr_out = RrNoOut

RrUnchanged ==
    UNCHANGED <<pll_vars, codec_vars, msi_vars, irq_vars, clk_vars, tic_vars, mux_vars, isr_vars, pd_vars, mg_vars, fv_vars, div_vars, pwm_vars,
                lm_vars>>

\* sg2042_clk_pll_round_rate(hw, req_rate, prate)
RrRoundRate ==
    /\ rr_pc = "call"
    /\ \E setting \in {sg2042_get_pll_ctl_setting(rr_in.rate, rr_in.prate,
                                                  rr_in.dz)} :
       \E proper \in {sg2042_clk_pll_round_rate(setting, rr_in.prate,
                                                rr_in.dz)} :
          /\ rr_pc' = IF proper.oops THEN "oops" ELSE "rounded"
          /\ rr_out' = [rr_out EXCEPT !.ret = setting.ret,
                                      !.best = setting.best,
                                      !.round = proper.rate]
    /\ UNCHANGED <<rr_in, rr_reg>>
    /\ RrUnchanged

\* sg2042_clk_pll_set_rate(hw, rate, parent_rate): sg2042_pll_enable(pll, 0)
\* returns 0; the control register is written when the solver returned 0
RrSetRate ==
    /\ rr_pc = "rounded"
    /\ \E setting \in {sg2042_get_pll_ctl_setting(rr_in.rate, rr_in.prate,
                                                  rr_in.dz)} :
          rr_reg' = IF set_rate_goto(setting.ret) = "ctrl_write"
                    THEN sg2042_pll_ctrl_encode(setting.best)
                    ELSE rr_reg
    /\ rr_pc' = "set"
    /\ UNCHANGED <<rr_in, rr_out>>
    /\ RrUnchanged

\* sg2042_clk_pll_recalc_rate(hw, parent_rate)
RrRecalcRate ==
    /\ rr_pc = "set"
    /\ \E rate \in {sg2042_pll_recalc_rate(rr_reg, rr_in.prate, rr_in.dz)} :
          /\ rr_pc' = IF rate.oops THEN "oops" ELSE "read"
          /\ rr_out' = [rr_out EXCEPT !.recalc = rate.rate]
    /\ UNCHANGED <<rr_in, rr_reg>>
    /\ RrUnchanged

NextRr == RrRoundRate \/ RrSetRate \/ RrRecalcRate

SpecRr == InitRr /\ [][NextRr]_vars

(***************************************************************************)
(* MSIs arriving while the chained ISR runs: two vectors are allocated and *)
(* composed; the device writes its message data to their entries at any    *)
(* time, which sets the MSI-pending status of link 0; the ISR runs one     *)
(* statement at a time, and calls the handler only when it read the status *)
(* bit set.                                                                *)
(***************************************************************************)
LmStatusBit == st_msi_in_bit(0)

\* the controller after alloc of two vectors at virq 1
LmAllocated == sg2042_pcie_irq_domain_alloc({}, <<>>, 1, 2)

\* the message composed for slot h with the shared region at bus address 0
LmMessage(h) ==
    LET r == sg2042_pcie_setup_msi_msg([hi |-> 0, lo |-> <<0, 0>>], h)
    IN  [address_lo |-> r.address_lo, address_hi |-> r.address_hi,
         data |-> r.data]

LmOthersIdle ==
    PllIdle /\ CodecIdle /\ ClkIdle /\ TicIdle /\ MuxIdle /\ IsrIdle /\ PdIdle /\ MangoIdle /\ FvIdle /\ DivIdle /\ PwmIdle /\ RrIdle

\* both vectors allocated, and composed in ascending order
InitLm ==
    /\ LmOthersIdle
    /\ msi_irq_in_use = LmAllocated.in_use
    /\ msi_irq_data = LmAllocated.irq_data
    /\ msi_live = {[virq |-> 1, nr_irqs |-> 2]}
    /\ msi_last = MsiNoCall
    /\ msi_lock = 0
    /\ msi_cpu = [c \in Cpus |-> CpuIdle]
    /\ msi_data = [hi |-> 0, lo |-> <<0, 0>>]
    /\ msi_page = <<>>
    /\ num_applied_vecs = sg2042_pcie_setup_msi_msg(msi_data, 1).num_applied_vecs
    /\ msi_msg = [h \in LmSlots |-> LmMessage(h)]
    /\ disp = DispIdle
    /\ disp_log = <<>>
    /\ lm_pc = "idle"
    /\ lm_status = {}
    /\ lm_stamp = [s \in LmSlots |-> -1]

LmUnchanged ==
    UNCHANGED <<pll_vars, codec_vars, msi_vars, clk_vars, tic_vars, mux_vars, isr_vars, pd_vars, mg_vars, fv_vars, div_vars, pwm_vars, rr_vars>>

\* the events of the handler's log after the first n that call
\* generic_handle_irq with the virq of slot s
LmRaisesAfter(s, n) ==
    {k \in DOMAIN disp_log :
        /\ k > n
        /\ disp_log[k].ev \in {"raise", "fallback"}
        /\ disp_log[k].i = s
        /\ disp_log[k].val # 0}

\* the device writes the data of the message it holds for slot s to the
\* message's address; the controller sets the MSI-pending status
LmDeviceWrite(s) ==
    /\ s \in DOMAIN msi_msg
    /\ msi_page' = [j \in (DOMAIN msi_page) \cup {s} |->
                       IF j = s THEN msi_msg[s].data ELSE msi_page[j]]
    /\ lm_status' = lm_status \cup {LmStatusBit}
    /\ lm_stamp' = [lm_stamp EXCEPT ![s] = Len(disp_log)]
    /\ UNCHANGED <<msi_data, num_applied_vecs, msi_msg, disp, disp_log, lm_pc>>
    /\ LmUnchanged

\* chained_irq_enter
LmIsrEnter ==
    /\ lm_pc = "idle"
    /\ lm_pc' = "read_status"
    /\ UNCHANGED <<irq_vars, lm_status, lm_stamp>>
    /\ LmUnchanged

\* regmap_read(REG0810) and the test of the link's status bit
LmIsrReadStatus ==
    /\ lm_pc = "read_status"
    /\ lm_pc' = IF msi_in_pending(lm_status, 0) THEN "clear" ELSE "exit"
    /\ UNCHANGED <<irq_vars, lm_status, lm_stamp>>
    /\ LmUnchanged

\* the pulse on the clear bit of REG0804: the status bit is reset
LmIsrClear ==
    /\ lm_pc = "clear"
    /\ lm_status' = lm_status \ {LmStatusBit}
    /\ lm_pc' = "scan"
    /\ UNCHANGED <<irq_vars, lm_stamp>>
    /\ LmUnchanged

\* the call sg2042_pcie_handle_msi_irq(pcie): the handler's entry
LmScanEnter ==
    /\ lm_pc = "scan"
    /\ disp.pc = "idle"
    /\ disp' = [pc |-> "read", i |-> 0, num_vectors |-> num_applied_vecs,
                ret |-> "IRQ_NONE", status |-> 0]
    /\ disp_log' = <<>>
    /\ lm_pc' = "scanning"
    /\ lm_stamp' = [s \in LmSlots |-> IF lm_stamp[s] < 0 THEN -1 ELSE 0]
    /\ UNCHANGED <<msi_data, msi_page, num_applied_vecs, msi_msg, lm_status>>
    /\ LmUnchanged

\* the handler's "return ret;": a write that an interrupt of this run
\* answered is no longer owed
LmScanReturn ==
    /\ lm_pc = "scanning"
    /\ disp.pc = "done"
    /\ disp' = DispIdle
    /\ disp_log' = <<>>
    /\ lm_pc' = "exit"
    /\ lm_stamp' = [s \in LmSlots |->
                       IF lm_stamp[s] < 0 \/ LmRaisesAfter(s, lm_stamp[s]) # {}
                       THEN -1 ELSE 0]
    /\ UNCHANGED <<msi_data, msi_page, num_applied_vecs, msi_msg, lm_status>>
    /\ LmUnchanged

\* chained_irq_exit
LmIsrExit ==
    /\ lm_pc = "exit"
    /\ lm_pc' = "idle"
    /\ UNCHANGED <<irq_vars, lm_status, lm_stamp>>
    /\ LmUnchanged

\* a statement of the ISR or of the handler it calls
LmIsrStep ==
    \/ LmIsrEnter
    \/ LmIsrReadStatus
    \/ LmIsrClear
    \/ LmScanEnter
    \/ DispRead
    \/ DispRaise
    \/ DispZero
    \/ DispFallback
    \/ LmScanReturn
    \/ LmIsrExit

NextLm ==
    \/ \E s \in LmSlots : LmDeviceWrite(s)
    \/ LmIsrStep

SpecLm == InitLm /\ [][NextLm]_vars

\* the ISR runs whenever it can: the interrupt controller calls it again
\* after it returns, and each of its statements is executed
SpecLmFair == SpecLm /\ WF_vars(LmIsrStep)

(***************************************************************************)
(* Properties of the PLL rate solver (checked under SpecPll).              *)
(***************************************************************************)
\* the call returned 0
PllSolved == pll_pc = "returned" /\ pll_ret = 0

\* parent_rate = 25 MHz and target_rate in [16 MHz, 3200 MHz]
PllInRange ==
    /\ pll_parent = Hz(25, 0)
    /\ u64_le(Hz(16, 0), pll_req)
    /\ u64_le(pll_req, Hz(3200, 0))

\* vco = floor(25 MHz * fbdiv / refdiv) and its range [800 MHz, 3200 MHz]
VcoOf(refdiv, fbdiv) == u64_div(u64_mul(Hz(25, 0), fbdiv), refdiv)
VcoInRange(vco) == u64_le(Hz(800, 0), vco) /\ u64_le(vco, Hz(3200, 0))

\* the reference-stability constraint: 25 MHz / refdiv above 10 MHz
RefStable(refdiv) == u64_lt(Hz(10, 0), u64_div(Hz(25, 0), refdiv))

\* the (refdiv, fbdiv) of the search ranges that satisfy both constraints,
\* and every output frequency they reach with post-dividers in 1..7
AdmissiblePairs ==
    {rf \in (1..63) \X (16..320) :
        RefStable(rf[1]) /\ VcoInRange(VcoOf(rf[1], rf[2]))}
AchievableFout ==
    {u64_div(VcoOf(rf[1], rf[2]), p1 * p2) :
        rf \in AdmissiblePairs, p1 \in 1..7, p2 \in 1..7}

\* the candidates the search evaluates for a rate: the (refdiv, fbdiv) with
\* the vco in range whose post-divider lookup succeeds with a non-zero
\* product, each with the one output frequency of the pair looked up
EvaluatedPairs(rate) ==
    {rf \in (1..63) \X (16..320) :
        /\ VcoInRange(VcoOf(rf[1], rf[2]))
        /\ LET pd == sg2042_pll_get_postdiv_1_2(rate, Hz(25, 0), rf[2], rf[1])
           IN  pd.ret = 0 /\ pd.postdiv1 * pd.postdiv2 # 0}
EvaluatedFout(rate, rf) ==
    LET pd == sg2042_pll_get_postdiv_1_2(rate, Hz(25, 0), rf[2], rf[1])
    IN  u64_div(VcoOf(rf[1], rf[2]), pd.postdiv1 * pd.postdiv2)

\* C1 as stated: a returned best.freq is at least as close to the target as
\* every output frequency of every admissible (refdiv, fbdiv, postdiv1,
\* postdiv2).
C1_ClosestOfAllCombinations ==
    (PllSolved /\ PllInRange) =>
        \A f \in AchievableFout :
            u64_le(abs_diff(pll_best.freq, pll_req), abs_diff(f, pll_req))

\* C1 amended: a returned best.freq is the output frequency of one of the
\* candidates the search evaluates (one post-divider pair per (refdiv, fbdiv),
\* the pair the lookup selects) and is at least as close to the target as
\* every such candidate.
C1_ClosestOfEvaluated ==
    (PllSolved /\ PllInRange) =>
        LET E == EvaluatedPairs(pll_req)
        IN  /\ \E rf \in E : EvaluatedFout(pll_req, rf) = pll_best.freq
            /\ \A rf \in E :
                   u64_le(abs_diff(pll_best.freq, pll_req),
                          abs_diff(EvaluatedFout(pll_req, rf), pll_req))

\* C1 witness: a search that returned a frequency other than the target
C1_Witness == PllSolved /\ PllInRange /\ pll_best.freq # pll_req

\* C2: for the 25 MHz parent and a target in range, the solver returns
\* -EINVAL exactly when no (refdiv, fbdiv) of the search ranges satisfies the
\* VCO-range and reference-stability constraints.
C2_NoSolutionIffNoCombination ==
    (pll_pc = "returned" /\ PllInRange) =>
        ((pll_ret = -EINVAL) <=> (AdmissiblePairs = {}))

\* C2 witness: an in-range call that returned while admissible pairs exist
C2_Witness ==
    pll_pc = "returned" /\ PllInRange /\ pll_ret = 0 /\ AdmissiblePairs # {}

\* C3: a returned solution has postdiv1 and postdiv2 in 1..7, refdiv in 1..63,
\* fbdiv in 16..320, its vco inside [800 MHz, 3200 MHz], and
\* best.freq = floor(vco / (postdiv1 * postdiv2)).
C3_SolutionSatisfiesDataModel ==
    PllSolved =>
        /\ pll_best.postdiv1 \in 1..7
        /\ pll_best.postdiv2 \in 1..7
        /\ pll_best.refdiv \in 1..63
        /\ pll_best.fbdiv \in 16..320
        /\ VcoInRange(VcoOf(pll_best.refdiv, pll_best.fbdiv))
        /\ pll_best.freq =
               u64_div(VcoOf(pll_best.refdiv, pll_best.fbdiv),
                       pll_best.postdiv1 * pll_best.postdiv2)

\* C3 witness: a returned solution that uses both post-dividers
C3_Witness == PllSolved /\ pll_best.postdiv1 > 1 /\ pll_best.postdiv2 > 1

\* C4: no returned solution has parent_rate / refdiv at or below 10 MHz (for
\* the 25 MHz parent: none has refdiv >= 3).
C4_NoUnstableRefdiv ==
    PllSolved =>
        /\ u64_lt(Hz(10, 0), u64_div(pll_parent, pll_best.refdiv))
        /\ pll_best.refdiv < 3

FitsFields(p) ==
    /\ p.fbdiv < 4096 /\ p.postdiv1 < 8 /\ p.postdiv2 < 8 /\ p.refdiv < 64

\* bits hi..lo of a word
Field(word, hi, lo) == (word \div Pow2(lo)) % Pow2(hi - lo + 1)

\* C5: for every p whose fields fit their bit-widths, the control word holds
\* fbdiv at bits [27:16], postdiv2 at [14:12], postdiv1 at [10:8] and refdiv at
\* [5:0], nothing else, and sg2042_pll_ctrl_decode of it gives p back.
C5_EncodeDecodeRoundTrip ==
    (codec_drv = "sg2042" /\ FitsFields(codec_in)) =>
        /\ codec_pc \in {"encoded", "decoded"} =>
               /\ Field(codec_reg, 27, 16) = codec_in.fbdiv
               /\ Field(codec_reg, 14, 12) = codec_in.postdiv2
               /\ Field(codec_reg, 10, 8) = codec_in.postdiv1
               /\ Field(codec_reg, 5, 0) = codec_in.refdiv
               /\ codec_reg = codec_in.fbdiv * Pow2(16) + codec_in.postdiv2 * Pow2(12)
                                + codec_in.postdiv1 * Pow2(8) + codec_in.refdiv
        /\ codec_pc = "decoded" => codec_out = codec_in

\* C5 witness: a decoded word whose post-dividers differ and whose fields are
\* at the top of their widths
C5_Witness ==
    /\ codec_drv = "sg2042" /\ codec_pc = "decoded"
    /\ codec_in.fbdiv = 4095 /\ codec_in.refdiv = 63
    /\ codec_in.postdiv1 = 7 /\ codec_in.postdiv2 = 2

\* C6: for the dividers of the data model, which the regmap-based driver
\* searches (refdiv in 1..64, fbdiv in 16..321, postdiv1 and postdiv2 in 1..7),
\* the field extraction of __mango_pll_recalc_rate applied to ENCODE_PLL_CTRL
\* yields the same four values.
C6_MangoRoundTrip ==
    (/\ codec_drv = "mango" /\ codec_pc = "decoded"
     /\ codec_in.refdiv \in 1..64 /\ codec_in.fbdiv \in 16..321
     /\ codec_in.postdiv1 \in 1..7 /\ codec_in.postdiv2 \in 1..7) =>
        codec_out = codec_in

(***************************************************************************)
(* Properties of the MSI bitmap allocator (checked under SpecMsi).         *)
(***************************************************************************)
\* ceil(log2(n)) for n >= 1: the least k with 2^k >= n
CeilLog2(n) == CHOOSE k \in 0..10 : Pow2(k) >= n /\ \A j \in 0..(k - 1) : Pow2(j) < n

\* C8: a successful alloc(nr_irqs) returns the lowest base that is a multiple
\* of 2^order (order = ceil(log2(nr_irqs))) with all of base .. base+2^order-1
\* inside the 512-bit bitmap and free before the call; afterwards exactly those
\* bits are added and no other bit has changed.
C8_AllocLowestAlignedFreeRegion ==
    (msi_last.op = "alloc" /\ msi_last.ret = 0) =>
        LET size == Pow2(CeilLog2(msi_last.nr_irqs))
            base == msi_last.hwirq
            WasFree(b) == /\ b % size = 0
                          /\ b + size <= 512
                          /\ \A i \in b..(b + size - 1) : i \notin msi_last.before
        IN  /\ WasFree(base)
            /\ \A b \in 0..(base - 1) : ~WasFree(b)
            /\ msi_irq_in_use = msi_last.before \cup (base..(base + size - 1))

\* C8 witness: an allocation of a count that is no power of two which had to
\* skip a lower region with bits in use
C8_Witness ==
    /\ msi_last.op = "alloc" /\ msi_last.ret = 0
    /\ msi_last.nr_irqs = 3 /\ msi_last.hwirq = 4
    /\ msi_last.before # {}

\* C9: a free(base, n) that directly follows the successful alloc(n) which
\* returned base leaves the bitmap exactly as it was before that alloc.
C9_AllocThenFreeRestoresBitmap ==
    (msi_last.op = "free" /\ msi_last.undoes) =>
        msi_irq_in_use = msi_last.prior

\* C9 witness: such a free of a 5-vector allocation (a region of 8 bits) made
\* while other allocations are held
C9_Witness ==
    /\ msi_last.op = "free" /\ msi_last.undoes
    /\ msi_last.nr_irqs = 5
    /\ msi_irq_in_use # {}

(***************************************************************************)
(* Properties of concurrent alloc and free (checked under SpecMsiSmp).     *)
(***************************************************************************)
\* CPU c is between taking and dropping the lock: at the bitmap search, the
\* marking, the release, or the unlock that follows them
InBitmapSection(c) ==
    msi_cpu[c].pc \in {"alloc_scan", "alloc_mark", "alloc_unlock",
                       "free_release", "free_unlock"}

\* the allocations that have been returned a range and have not released it:
\* those the IRQ core holds, those whose alloc has marked its region, those
\* whose free has not yet released it
HeldRanges ==
    {[virq |-> a.virq, hwirq |-> msi_irq_data[a.virq], nr_irqs |-> a.nr_irqs] :
        a \in msi_live}
    \cup {[virq |-> msi_cpu[c].virq, hwirq |-> msi_cpu[c].bit,
           nr_irqs |-> msi_cpu[c].nr_irqs] :
        c \in {d \in Cpus : /\ msi_cpu[d].pc \in {"alloc_unlock", "alloc_ret"}
                            /\ msi_cpu[d].bit >= 0}}
    \cup {[virq |-> msi_cpu[c].virq, hwirq |-> msi_cpu[c].hwirq,
           nr_irqs |-> msi_cpu[c].nr_irqs] :
        c \in {d \in Cpus : msi_cpu[d].pc \in {"free_lock", "free_release"}}}

\* C10: under every interleaving, at most one CPU is in the bitmap
\* search-and-mark or release and it holds the lock, and no slot index lies in
\* the regions (base .. base + 2^order - 1, which contain the ranges
\* base .. base + nr_irqs - 1) of two allocations that are both still held.
C10_LockedBitmapNoOverlap ==
    /\ \A c \in Cpus : InBitmapSection(c) => msi_lock = c
    /\ \A c, d \in Cpus : (InBitmapSection(c) /\ InBitmapSection(d)) => c = d
    /\ \A a, b \in HeldRanges :
           a.virq # b.virq =>
               BitmapRegion(a.hwirq, order_base_2(a.nr_irqs))
                   \cap BitmapRegion(b.hwirq, order_base_2(b.nr_irqs)) = {}

\* C10 witness: one CPU holds the lock inside alloc's bitmap search while
\* another CPU spins at the lock of a free, with an allocation still held
C10_Witness ==
    \E c, d \in Cpus :
        /\ msi_cpu[c].pc = "alloc_mark" /\ msi_lock = c
        /\ msi_cpu[d].pc = "free_lock"
        /\ msi_irq_in_use # {}

(***************************************************************************)
(* Properties of allocation failure (checked under SpecMsi).               *)
(***************************************************************************)
\* no aligned region of 2^order bits is free in a bitmap of 512 bits
NoFreeRegion(bitmap, nr_irqs) ==
    LET size == Pow2(CeilLog2(nr_irqs))
    IN  \A b \in 0..511 :
            ~(/\ b % size = 0
              /\ b + size <= 512
              /\ \A i \in b..(b + size - 1) : i \notin bitmap)

\* C11: an alloc made when the bitmap has no free aligned region of the
\* requested size returns -ENOSPC, leaves the bitmap exactly as before the
\* call, and installs no mapping for the virqs of the call.
C11_NoRoomGivesEnospc ==
    (msi_last.op = "alloc" /\ NoFreeRegion(msi_last.before, msi_last.nr_irqs)) =>
        /\ msi_last.ret = -ENOSPC
        /\ msi_irq_in_use = msi_last.before
        /\ \A v \in msi_last.virq..(msi_last.virq + msi_last.nr_irqs - 1) :
               v \notin DOMAIN msi_irq_data
        /\ \A v \in DOMAIN msi_irq_data : msi_irq_data[v] \in msi_last.before

\* C11 witness: a failed request while most of the bitmap is free but no
\* aligned region of the requested size is
C11_Witness ==
    /\ msi_last.op = "alloc" /\ msi_last.ret = -ENOSPC
    /\ msi_last.before # {} /\ Cardinality(msi_last.before) < 16
    /\ msi_irq_in_use = msi_last.before

(***************************************************************************)
(* Properties of the composed messages (checked under SpecMsiMsg).         *)
(***************************************************************************)
\* the 64-bit bus address base + n, n < 4096, as [hi, lo]
BusAddrPlus(base, n) ==
    LET total == base.lo[2] + n
        page == base.lo[1] + total \div PAGE_SIZE
    IN  [hi |-> base.hi + page \div Pages32,
         lo |-> <<page % Pages32, total % PAGE_SIZE>>]

MsgAddr(m) == [hi |-> m.address_hi, lo |-> m.address_lo]

\* C12: the message of slot s has address = msi_data + 4*s and data = 1, its
\* four bytes lie inside the 2048 bytes from msi_data on, distinct slots have
\* distinct addresses, and for every s in 0..511 the address the code
\* computes is msi_data + 4*s.
C12_ComposedMessage ==
    /\ \A s \in DOMAIN msi_msg :
           /\ MsgAddr(msi_msg[s]) = BusAddrPlus(msi_data, 4 * s)
           /\ msi_msg[s].data = 1
           /\ 4 * s + 4 <= MSI_PAGE_BYTES
    /\ \A s, t \in DOMAIN msi_msg :
           s # t => MsgAddr(msi_msg[s]) # MsgAddr(msi_msg[t])
    /\ \A s \in 0..511 :
           MsgAddr(sg2042_pcie_setup_msi_msg(msi_data, s))
               = BusAddrPlus(msi_data, 4 * s)

\* C12 witness: the messages of the first and of the last slot are both
\* composed, in a region at the top of the low 4 GiB
C12_Witness ==
    /\ {0, 511} \subseteq DOMAIN msi_msg
    /\ msi_data.lo[1] = Pages32 - 1

\* C16: num_applied_vecs, the upper bound of the handler's scan, is at least
\* the index of every allocated slot whose message has been composed.
C16_ScanCoversComposedSlots ==
    \A s \in DOMAIN msi_msg : s <= num_applied_vecs

\* the events of the handler's run so far, by kind and entry index
LogEvents(ev, i) ==
    {k \in DOMAIN disp_log : disp_log[k].ev = ev /\ disp_log[k].i = i}

\* C13: in one run of the handler, every entry that is read non-zero has an
\* interrupt raised for its slot before the entry is written to zero.
C13_NonZeroEntryRaisedThenZeroed ==
    \A k \in DOMAIN disp_log :
        disp_log[k].ev = "write" =>
            \E j \in LogEvents("raise", disp_log[k].i) : j < k

\* the entry indexes of the events of one kind in the handler's run so far
LogIndexes(ev) ==
    {disp_log[k].i : k \in {n \in DOMAIN disp_log : disp_log[n].ev = ev}}

\* a run whose first pass read some entry non-zero: every interrupt raised and
\* every write to the region is for an entry read non-zero before, at most
\* one raise per entry, and no raise by the second pass
RaisesOnlyForNonZeroEntries ==
    LogIndexes("read") # {} =>
        /\ \A k \in DOMAIN disp_log :
               disp_log[k].ev \in {"raise", "write"} =>
                   \E j \in LogEvents("read", disp_log[k].i) : j < k
        /\ LogIndexes("fallback") = {}
        /\ \A i \in LogIndexes("raise") :
               Cardinality(LogEvents("raise", i)) = 1

\* the finished run that read [0, 0, 5]: one raise, for slot 2, and one
\* write, to entry 2
OnlySlotTwoRaised ==
    ( /\ disp.pc = "done"
      /\ disp.num_vectors = 2
      /\ LogIndexes("read") = {2}
      /\ \A k \in LogEvents("read", 2) : disp_log[k].val = 5 )
    => /\ LogIndexes("raise") = {2}
       /\ Cardinality(LogEvents("raise", 2)) = 1
       /\ LogIndexes("write") = {2}

\* C14: when some scanned entry is non-zero the handler raises interrupts
\* only for slots whose entry it read non-zero and writes to no other entry;
\* with entries [0, 0, 5] it raises slot 2's interrupt once and nothing else,
\* and its write leaves entry 2 zero.
C14_RaisesOnlyNonZeroSlots ==
    [][ /\ RaisesOnlyForNonZeroEntries'
        /\ OnlySlotTwoRaised'
        /\ (disp.pc = "zero" /\ disp'.pc = "read") =>
               /\ msi_page_readl(msi_page', disp.i) = 0
               /\ \A j \in (DOMAIN msi_page \cup DOMAIN msi_page') \ {disp.i} :
                      msi_page_readl(msi_page', j) = msi_page_readl(msi_page, j) ]_vars

\* C14 witness: the handler has finished a run over entries [0, 0, 5] in
\* which it raised the interrupt mapped to slot 2 and zeroed entry 2
C14_Witness ==
    /\ disp.pc = "done"
    /\ disp.num_vectors = 2
    /\ disp_log = <<[ev |-> "read", i |-> 2, val |-> 5],
                    [ev |-> "raise", i |-> 2,
                     val |-> irq_find_mapping(msi_irq_data, 2)],
                    [ev |-> "write", i |-> 2, val |-> 0]>>
    /\ irq_find_mapping(msi_irq_data, 2) # 0
    /\ msi_page_readl(msi_page, 2) = 0

\* a run whose first pass read every scanned entry as zero
AllScannedEntriesZero == LogIndexes("read") = {}

\* C15: when the first pass reads every scanned entry as zero and
\* num_applied_vecs >= 1, the handler runs the second pass; the second pass
\* raises, for each index of [0, num_applied_vecs], the interrupt mapped to
\* that slot if there is one and nothing otherwise, and the run writes
\* nothing to the shared region.
C15_FallbackRaisesMappedSlots ==
    [][ (disp.num_vectors >= 1 /\ disp' # disp /\ disp'.pc # "idle") =>
          /\ ( /\ disp.pc = "read"
               /\ disp.i > disp.num_vectors
               /\ AllScannedEntriesZero )
             => /\ disp'.pc = "fallback"
                /\ disp'.i = 0
          /\ (disp.pc = "fallback" /\ disp.i <= disp.num_vectors) =>
                LET irq == irq_find_mapping(msi_irq_data, disp.i)
                IN  /\ disp'.i = disp.i + 1
                    /\ disp_log' = IF irq = 0 THEN disp_log
                                   ELSE Append(disp_log,
                                               [ev |-> "fallback",
                                                i |-> disp.i, val |-> irq])
          /\ AllScannedEntriesZero' =>
                /\ LogIndexes("raise")' = {}
                /\ LogIndexes("write")' = {}
                /\ msi_page' = msi_page ]_<<disp, disp_log, msi_page>>

\* C15 witness: a finished run with num_applied_vecs >= 1 that found every
\* entry zero and went through the second pass, raising the interrupt of a
\* mapped slot and nothing for an unmapped one
C15_Witness ==
    /\ disp.pc = "done"
    /\ disp.num_vectors >= 1
    /\ AllScannedEntriesZero
    /\ LogIndexes("fallback") # {}
    /\ (0 .. disp.num_vectors) \ LogIndexes("fallback") # {}
    /\ LogIndexes("write") = {}

\* where a CPU is between spin_lock_irqsave and spin_unlock_irqrestore of
\* sg2042_clk_pll_set_rate
ClkLockedSection ==
    {"disable_read", "disable_write", "solve", "ctrl_write", "poll_lock",
     "poll_updating", "enable_read", "enable_write", "unlock", "oops"}

\* the enable bits of the PLLs other than MPLL
OtherPllsEnabled(enable) == enable \ {shift_enable(MPLL_SHIFT)}

\* C17: a CPU between the disable and the end of the re-enable of set_rate
\* holds the shared lock, so no two CPUs are in that sequence at once; a CPU
\* that is returning holds it no more; the value a CPU writes back to the
\* enable register was read from the register as it still is; and no step
\* changes the enable bit of another PLL.
C17_SetRateSerialized ==
    [][ /\ \A c \in Cpus :
              /\ clk_cpu'[c].pc \in ClkLockedSection => clk_lock' = c
              /\ clk_cpu'[c].pc = "return" => clk_lock' # c
              /\ clk_cpu'[c].pc \in {"disable_write", "enable_write"} =>
                     clk_cpu'[c].value = clk_enable'
        /\ OtherPllsEnabled(clk_enable') = OtherPllsEnabled(clk_enable) ]_vars

\* C17 witness: a CPU is about to write the enable register back, with MPLL
\* disabled and DPLL0 enabled as it was at the start, while another CPU
\* waits for the lock
C17_Witness ==
    \E c, d \in Cpus :
        /\ c # d
        /\ clk_cpu[c].pc = "enable_write"
        /\ clk_cpu[d].pc = "lock"
        /\ clk_lock = c
        /\ clk_enable = {4}

ClkNoSolution(c) ==
    /\ clk_cpu[c].pc # "idle"
    /\ LET r == ClkSetting(clk_cpu[c].rate, pll_dz)
       IN  ~r.oops /\ r.ret # 0

\* the call on CPU c is past the solver and the re-enable, about to unlock
ClkLeaving(c) == clk_cpu[c].pc = "unlock"

MpllEnabled == shift_enable(MPLL_SHIFT) \in clk_enable

\* C19 as claimed: a call for which the solver found no setting leaves with
\* MPLL's enable bit cleared.
C19_NoSolutionLeavesDisabled ==
    \A c \in Cpus :
        (ClkLeaving(c) /\ ClkNoSolution(c)) => ~MpllEnabled

\* C19 amended: the enable bit is clear while the solver runs, and a call
\* for which the solver found no setting leaves with -EINVAL and with the
\* enable bit set again.
C19_NoSolutionReenables ==
    \A c \in Cpus :
        /\ clk_cpu[c].pc = "solve" => ~MpllEnabled
        /\ (ClkLeaving(c) /\ ClkNoSolution(c)) =>
               /\ MpllEnabled
               /\ clk_cpu[c].ret = -EINVAL

\* C19 witness: a call for a rate without a setting is about to unlock, and
\* MPLL, disabled at the start, is enabled
C19_Witness ==
    \E c \in Cpus :
        /\ ClkLeaving(c)
        /\ ClkNoSolution(c)
        /\ clk_enable = {0, 3, 5}

\* C20: a call for which the solver found no setting returns a non-zero
\* value, never comes to the write of the control register, and from its
\* lock to its unlock no step changes the control word; the control word
\* changes only by the write of a call whose solver returned 0.
C20_NoSolutionNoWrite ==
    [][ /\ \A c \in Cpus :
              /\ (clk_cpu'[c].pc = "return" /\ ClkNoSolution(c)') =>
                     clk_cpu'[c].ret # 0
              /\ ClkNoSolution(c)' => clk_cpu'[c].pc # "ctrl_write"
              /\ (clk_cpu[c].pc \in ClkLockedSection /\ ClkNoSolution(c)) =>
                     clk_ctrl' = clk_ctrl
        /\ clk_ctrl' # clk_ctrl =>
              \E c \in Cpus : /\ clk_cpu[c].pc = "ctrl_write"
                               /\ clk_cpu[c].ret = 0 ]_vars

\* C20 witness: a call for 15 MHz returns -EINVAL, and the control register
\* holds the word for 2000 MHz that an earlier call wrote
C20_Witness ==
    \E c \in Cpus :
        /\ clk_cpu[c].pc = "return"
        /\ clk_cpu[c].rate = Hz(15, 0)
        /\ clk_cpu[c].ret = -EINVAL
        /\ clk_ctrl = sg2042_pll_ctrl_encode(
                          [fbdiv |-> 80, postdiv1 |-> 1, postdiv2 |-> 1,
                           refdiv |-> 1])
        /\ clk_cpu[CHOOSE d \in Cpus : d # c].pc = "lock"

(***************************************************************************)
(* Properties of the top interrupt controller (checked under SpecTic).     *)
(***************************************************************************)
\* the line whose PLIC hwirq the last run of the handler was given
TicLastLine == tic_last.plic_hwirq - tic_data.plic_hwirqs[0]

\* the last run of the handler was given a line
TicHandlerRan == tic_last.plic_hwirq # 0

\* C21: whenever top_intc_irq_handler has run for a line whose slot was not
\* allocated at the time, it raised no virtual IRQ and wrote that line's bit
\* to the clear register
C21_UnallocatedLineCleared ==
    (TicHandlerRan /\ ~tic_last.allocated)
        => (tic_last.raised = 0 /\ tic_last.clr = TicLastLine)

\* the slots whose virtual IRQ the domain maps
TicMappedSlots == {tic_irq_data[v] : v \in DOMAIN tic_irq_data}

\* C22: every mapped slot s is below irq_num and at most 31 and has
\* tic_to_plic[s] = plic_hwirqs[s]; and a run of the handler for the line of
\* a slot mapped at the time raised the virtual IRQ mapped to that slot, and
\* no other
C22_AllocFillsReverseTable ==
    /\ \A s \in TicMappedSlots :
          /\ s >= 0 /\ s < tic_data.irq_num /\ s < MAX_IRQ_NUMBER
          /\ tic_data.tic_to_plic[s] = tic_data.plic_hwirqs[s]
    /\ \A s \in tic_data.irq_bitmap : s >= 0 /\ s < tic_data.irq_num
    /\ (TicHandlerRan /\ tic_last.mapped # 0)
          => (tic_last.raised = tic_last.mapped /\ tic_last.i = TicLastLine)

\* the handler ran for the line of the second slot of an allocation that
\* followed another one
C22_Witness ==
    /\ TicHandlerRan
    /\ TicLastLine = 1
    /\ tic_last.mapped > 1
    /\ tic_last.raised = tic_last.mapped

(***************************************************************************)
(* Properties of the mux notifier (checked under SpecMux).                 *)
(***************************************************************************)
\* C23: after PRE_RATE_CHANGE a writable mux has recorded the parent index it
\* had and is on parent index 1; after the POST_RATE_CHANGE that follows it
\* is on the parent index it had before the PRE
C23_MuxParentRestored ==
    \A m \in MuxShifts :
        /\ (mux_clk[m].pc = "pre")
              => /\ mux_clk[m].original_index = mux_clk[m].before
                 /\ clk_mux_get_parent(mux_reg, m) = 1
        /\ (mux_clk[m].pc = "post")
              => clk_mux_get_parent(mux_reg, m) = mux_clk[m].before

\* one mux is back on parent 0 and the other back on parent 1 after their
\* PRE;POST pairs
C23_Witness ==
    /\ mux_clk[0].pc = "post" /\ mux_clk[0].before = 0
    /\ clk_mux_get_parent(mux_reg, 0) = 0
    /\ mux_clk[1].pc = "post" /\ mux_clk[1].before = 1
    /\ clk_mux_get_parent(mux_reg, 1) = 1

(***************************************************************************)
(* Properties of the chained MSI ISR (checked under SpecIsr).              *)
(***************************************************************************)
\* the ISR of link l returns after it found its status bit set
IsrReturnsHandled(l) ==
    /\ isr_link[l].pc = "exit" /\ isr_link'[l].pc = "idle"
    /\ isr_link[l].read0804 = isr_link'[l].read0804
    /\ \E k \in DOMAIN isr_link[l].log : isr_link[l].log[k] = "clr_1"

\* the clear bits of the two links
IsrClrBits == {clr_msi_in_bit(l) : l \in Links}

\* C24: an ISR that found its link's status bit set has written the clear bit
\* as 1, then as 0, and then scanned the shared region; and when it returns,
\* its clear bit is 0 in REG0804 and the bits that are no link's clear bit
\* have the value the ISR read
C24_ClearBitPulsed ==
    [][\A l \in Links :
          IsrReturnsHandled(l)
              => /\ isr_link'[l].log = <<"enter", "clr_1", "clr_0", "scan", "exit">>
                 /\ clr_msi_in_bit(l) \notin isr_reg0804'
                 /\ isr_reg0804' \ IsrClrBits = isr_link[l].read0804 \ IsrClrBits]_vars

(***************************************************************************)
(* Properties of the post-divider lookup (checked under SpecPd).           *)
(***************************************************************************)
\* P = floor((floor(prate / refdiv) * fbdiv) / rate) for the inputs drawn
PdProduct ==
    u64_divmod(u64_mul(u64_div(pd_in.prate, pd_in.refdiv), pd_in.fbdiv),
               pd_in.rate).q

\* the lookup has run
PdLookedUp == pd_pc \in {"looked_up", "passed"}

\* C25: whenever P <= 7 the lookup succeeds with postdiv1 = P and
\* postdiv2 = 1
C25_SmallProductDirect ==
    (PdLookedUp /\ PdProduct <= 7) =>
        /\ pd_out.ret = 0
        /\ pd_out.postdiv1 = PdProduct
        /\ pd_out.postdiv2 = 1

\* a lookup with P = 7
C25_Witness == PdLookedUp /\ PdProduct = 7 /\ pd_out.postdiv1 = 7

\* the rows of postdiv1_2 whose product is at least P
PdRowsFrom(P) ==
    {k \in DOMAIN postdiv1_2 : postdiv1_2[k][POSTDIV_RESULT_INDEX] >= P}

\* C26: for P in 8..49 the lookup succeeds with the row of the smallest
\* product at least P, postdiv1 from its second column and postdiv2 from its
\* first; for P > 49 it returns -EINVAL and the loop body leaves best as it
\* was and goes on to the next fbdiv; the table's products ascend strictly
\* and each is the product of the row's two dividers, both in 2..7
C26_TableLookup ==
    /\ (PdLookedUp /\ PdProduct \in 8..49) =>
          /\ pd_out.ret = 0
          /\ \E k \in PdRowsFrom(PdProduct) :
                /\ \A j \in PdRowsFrom(PdProduct) :
                      postdiv1_2[k][POSTDIV_RESULT_INDEX]
                          <= postdiv1_2[j][POSTDIV_RESULT_INDEX]
                /\ pd_out.postdiv1 = postdiv1_2[k][2]
                /\ pd_out.postdiv2 = postdiv1_2[k][1]
    /\ (PdLookedUp /\ PdProduct > 49) => pd_out.ret = -EINVAL
    /\ (pd_pc = "passed" /\ PdProduct > 49) =>
          pd_pass = [best |-> PllCtrlZero, exit |-> "loop"]
    /\ \A k \in DOMAIN postdiv1_2 :
          /\ postdiv1_2[k][1] \in 2..7 /\ postdiv1_2[k][2] \in 2..7
          /\ postdiv1_2[k][POSTDIV_RESULT_INDEX] = postdiv1_2[k][1] * postdiv1_2[k][2]
          /\ k > 1 => postdiv1_2[k - 1][POSTDIV_RESULT_INDEX]
                          < postdiv1_2[k][POSTDIV_RESULT_INDEX]

\* a lookup with P = 10, a product of the table, whose row is {2, 5, 10}, and
\* the pass of the loop body that follows
C26_Witness ==
    /\ pd_pc = "passed" /\ PdProduct = 10
    /\ pd_out.postdiv1 = 5 /\ pd_out.postdiv2 = 2

(***************************************************************************)
(* Properties of the solver's iteration order (checked under SpecPll).     *)
(***************************************************************************)
\* the (refdiv, fbdiv) of the returned best, and the loops' order: refdiv
\* ascending outside, fbdiv ascending inside
PllBestPair == <<pll_best.refdiv, pll_best.fbdiv>>
PairBefore(a, b) == a[1] < b[1] \/ (a[1] = b[1] /\ a[2] < b[2])

\* the evaluated candidates whose output frequency is the target exactly
ExactPairs(rate) ==
    {rf \in EvaluatedPairs(rate) : EvaluatedFout(rate, rf) = rate}

\* C27: a search that returns left the loops by the return inside them
\* exactly when some evaluated candidate has fout equal to the target, and
\* then the best returned is the first such candidate in the loops' order,
\* with the post-dividers looked up for it
C27_FirstExactMatchReturned ==
    (PllSolved /\ PllInRange) =>
        LET X == ExactPairs(pll_req)
        IN  /\ pll_early <=> (X # {})
            /\ pll_early =>
                  /\ PllBestPair \in X
                  /\ \A rf \in X : rf = PllBestPair \/ PairBefore(PllBestPair, rf)
                  /\ pll_best.freq = pll_req
                  /\ LET pd == sg2042_pll_get_postdiv_1_2(
                                   pll_req, pll_parent, pll_best.fbdiv, pll_best.refdiv)
                     IN  pll_best.postdiv1 = pd.postdiv1
                         /\ pll_best.postdiv2 = pd.postdiv2

\* a search that returned from inside the loops at a pair after the first
\* of the order
C27_Witness ==
    /\ PllSolved /\ PllInRange /\ pll_early
    /\ pll_best.freq = pll_req
    /\ pll_best.fbdiv > 32

\* the distance of an evaluated candidate from the target
EvaluatedDistance(rate, rf) == abs_diff(EvaluatedFout(rate, rf), rate)

\* C28: the best returned is an evaluated candidate at the minimum distance
\* from the target, and every evaluated candidate before it in the loops'
\* order is strictly further away
C28_FirstMinimumKept ==
    (PllSolved /\ PllInRange) =>
        LET E == EvaluatedPairs(pll_req)
            dbest == abs_diff(pll_best.freq, pll_req)
        IN  /\ PllBestPair \in E
            /\ EvaluatedFout(pll_req, PllBestPair) = pll_best.freq
            /\ \A rf \in E :
                  /\ u64_le(dbest, EvaluatedDistance(pll_req, rf))
                  /\ PairBefore(rf, PllBestPair)
                        => u64_lt(dbest, EvaluatedDistance(pll_req, rf))

\* a search that ran to the end and kept its best although a later candidate
\* is at the same distance
C28_Witness ==
    /\ PllSolved /\ PllInRange /\ ~pll_early
    /\ \E rf \in EvaluatedPairs(pll_req) :
          /\ PairBefore(PllBestPair, rf)
          /\ EvaluatedDistance(pll_req, rf) = abs_diff(pll_best.freq, pll_req)


(***************************************************************************)
(* The order of the register accesses of one rate change (checked under    *)
(* SpecClk).  clk_cpu[c].log is what the call on CPU c has done so far:    *)
(* the write that clears the enable bit, the write of the control word,    *)
(* the two polls of the status register, the write that sets the enable    *)
(* bit.                                                                    *)
(***************************************************************************)
ClkLogWithCtrl == <<"disable", "ctrl", "poll_lock", "poll_updating", "enable">>
ClkLogNoCtrl == <<"disable", "poll_lock", "poll_updating", "enable">>
IsPrefix(s, t) == Len(s) <= Len(t) /\ SubSeq(t, 1, Len(s)) = s

\* the status register was polled for lock and then for updating just
\* before the i-th access of the log
ClkPolledBefore(log, i) ==
    /\ i > 2
    /\ log[i - 2] = "poll_lock"
    /\ log[i - 1] = "poll_updating"

\* C29 as stated: during a rate change the status register is polled for
\* lock set and updating clear both before the enable bit is cleared and
\* before it is set again, and the control word is written between the
\* disable and the re-enable.
C29_PolledBeforeDisableAndEnable ==
    \A c \in Cpus :
        LET log == clk_cpu[c].log
        IN  /\ \A i \in 1..Len(log) :
                   log[i] \in {"disable", "enable"} => ClkPolledBefore(log, i)
            /\ \A i \in 1..Len(log) :
                   (log[i] = "enable" /\ clk_cpu[c].ret = 0) =>
                       \E j, k \in 1..(i - 1) :
                           j < k /\ log[j] = "disable" /\ log[k] = "ctrl"

\* C29, amended: the enable bit is cleared without a poll; the status
\* register is polled for lock set and then for updating clear only before
\* the enable bit is set again; when the solver found a setting, the control
\* word is written after the disable and before these polls, and it is not
\* written otherwise.
C29_PolledBeforeEnableOnly ==
    \A c \in Cpus :
        LET log == clk_cpu[c].log
        IN  /\ \/ IsPrefix(log, ClkLogWithCtrl)
               \/ IsPrefix(log, ClkLogNoCtrl)
            /\ clk_cpu[c].pc \in {"unlock", "return"} =>
                   log = IF clk_cpu[c].ret = 0 THEN ClkLogWithCtrl
                                               ELSE ClkLogNoCtrl

\* a rate change that wrote a control word is through
C29_Witness ==
    \E c \in Cpus :
        /\ clk_cpu[c].pc = "return"
        /\ clk_cpu[c].ret = 0
        /\ clk_cpu[c].log = ClkLogWithCtrl

(***************************************************************************)
(* Termination of the re-enable of the regmap-based driver (checked under  *)
(* SpecMangoFair).                                                         *)
(***************************************************************************)
\* C30: mango_pll_enable(en = true) terminates even when the lock bit never
\* becomes set or the updating bit never clears: a call that has entered it
\* holding the lock releases the lock in the end.
C30_EnableTerminates ==
    \A c \in Cpus :
        (mg_cpu[c].pc = "lock_read" /\ mg_lock = c) ~> (mg_lock # c)

(***************************************************************************)
(* The VCO frequency of the regmap-based solver (checked under SpecFv).    *)
(***************************************************************************)
\* C31: for the 25 MHz parent and every refdiv in 1..64 and fbdiv in
\* 16..321, the foutvco the solver computes is floor(parent_rate * fbdiv /
\* refdiv): the product is formed without 32-bit wrap-around.
C31_FoutvcoIsFloor ==
    fv_pc = "done" =>
        fv_out = u64_div(u64_mul(fv_in.fref, fv_in.fbdiv), fv_in.refdiv)

(***************************************************************************)
(* The write sequence of the divider (checked under SpecDiv).              *)
(***************************************************************************)
\* the bits of the divider's field, and the field holding the factor v
DivFieldBits == {b \in U32Bits : b >= div_clk.shift /\ b < div_clk.shift + div_clk.width}
DivFieldOf(reg) == {b - div_clk.shift : b \in reg \cap DivFieldBits}

\* C32: the three writes of sg2042_clk_divider_set_rate happen with the
\* lock held, in this order: bit 0 cleared; the new factor in the field and
\* bit 3 set, bit 0 still 0; bit 0 set.  For a divider without
\* CLK_DIVIDER_HIWORD_MASK the register then has bit 0 = 1, bit 3 = 1, the
\* field equal to the factor, and its other bits as they were.
C32_WriteOrder ==
    \A c \in DivCpus :
        LET cpu == div_cpu[c]
            log == cpu.log
            others(reg) == reg \ (DivFieldBits \cup {0, 3})
        IN  /\ Len(log) <= 3
            /\ (Len(log) > 0 /\ cpu.pc # "return") => div_lock = c
            /\ Len(log) >= 1 =>
                   /\ 0 \notin log[1]
                   /\ log[1] \ {0} = cpu.before \ {0}
            /\ Len(log) >= 2 =>
                   /\ 0 \notin log[2]
                   /\ 3 \in log[2]
                   /\ DivFieldOf(log[2]) = BitsOf(cpu.value)
                   /\ others(log[2]) = others(cpu.before)
            /\ Len(log) = 3 =>
                   /\ log[3] = log[2] \cup {0}
                   /\ cpu.pc \in {"unlock", "return"}
            /\ (cpu.pc = "unlock" /\ ~div_clk.hiword) =>
                   /\ div_reg = log[3]
                   /\ {0, 3} \subseteq div_reg
                   /\ DivFieldOf(div_reg) = BitsOf(cpu.value)
                   /\ others(div_reg) = others(cpu.before)

\* a set_rate has written factor 21 over a register that had bit 0 and
\* bit 3 clear, other field bits set, and bits outside the field set
C32_Witness ==
    \E c \in DivCpus :
        /\ div_cpu[c].pc = "unlock"
        /\ div_cpu[c].value = 21
        /\ div_cpu[c].before \cap {0, 3} = {}
        /\ {1, 20, 31} \subseteq div_cpu[c].before

(***************************************************************************)
(* The bracket of the chained MSI ISR (checked under SpecIsr).             *)
(***************************************************************************)
\* the MSI-pending status bit of link l in REG0810: bit 3 for link 1, bit 2
\* otherwise
IsrOwnStatusBit(l) == IF l = 1 THEN 3 ELSE 2

\* the ISR of link l has read REG0810 and found its own bit clear
IsrFoundNothing(l) ==
    /\ isr_link[l].log # <<>>
    /\ isr_link[l].pc \in {"exit", "idle"}
    /\ IsrOwnStatusBit(l) \notin isr_link[l].read0810

\* C33: every run of the chained ISR calls chained_irq_enter first and
\* chained_irq_exit last; when the status bit of its own link is clear, the
\* ISR writes no register and does not scan the shared region (so it raises
\* no virtual IRQ and changes no entry).
C33_EnterExitBracket ==
    \A l \in Links :
        LET log == isr_link[l].log
        IN  /\ log # <<>> => log[1] = "enter"
            /\ \A k \in DOMAIN log : log[k] = "enter" => k = 1
            /\ \A k \in DOMAIN log :
                   log[k] = "exit" => k = Len(log) /\ isr_link[l].pc = "idle"
            /\ (log # <<>> /\ isr_link[l].pc = "idle") => log[Len(log)] = "exit"
            /\ IsrFoundNothing(l) =>
                   \A k \in DOMAIN log : log[k] \in {"enter", "exit"}

\* the ISR of a link has returned without finding its bit, while the other
\* link's bit was set in the status it read
C33_Witness ==
    \E l \in Links :
        /\ isr_link[l].pc = "idle"
        /\ isr_link[l].log = <<"enter", "exit">>
        /\ isr_link[l].read0810 # {}

(***************************************************************************)
(* Properties of pwm_sg2042_apply (checked under SpecPwm).                 *)
(***************************************************************************)
\* pwm_sg2042_apply is about to return
PwmReturning == pwm_call.pc = "return"

\* no register of any channel differs from its value at the call
PwmWroteNothing == pwm_regs = pwm_call.before

\* the registers of the channels other than the addressed one are as at the
\* call
PwmOthersKept ==
    \A ch \in PwmChannels \ {pwm_call.hwpwm} :
        pwm_regs[ch] = pwm_call.before[ch]

\* both registers of the addressed channel are 0
PwmChannelZeroed ==
    pwm_regs[pwm_call.hwpwm] = [period |-> u64(0), hlperiod |-> u64(0)]

\* hlperiod > period, as computed from the state and the clock rate
PwmHlperiodAbovePeriod ==
    u64_lt(min_u32_max(u64_div(pwm_call.state.period,
                               NSEC_PER_SEC \div pwm_clk)),
           min_u32_max(u64_div(pwm_call.state.duty_cycle,
                               NSEC_PER_SEC \div pwm_clk)))

\* C34 as stated: a state with enabled = false zeroes the channel and
\* returns 0; a state with inversed polarity or with hlperiod > period
\* returns -EINVAL without writing; the other channels are never written.
C34_ApplyDisableAndErrors ==
    PwmReturning =>
        /\ ~pwm_call.state.enabled =>
               PwmChannelZeroed /\ pwm_call.out.ret = 0
        /\ (\/ pwm_call.state.polarity = "PWM_POLARITY_INVERSED"
            \/ PwmHlperiodAbovePeriod) =>
               PwmWroteNothing /\ pwm_call.out.ret = -EINVAL
        /\ PwmOthersKept

\* C34, amended: the polarity test comes first, and the comparison of
\* hlperiod with period is made only for an enabled state.
C34_ApplyPolarityFirst ==
    PwmReturning =>
        /\ pwm_call.state.polarity = "PWM_POLARITY_INVERSED" =>
               PwmWroteNothing /\ pwm_call.out.ret = -EINVAL
        /\ (/\ pwm_call.state.polarity # "PWM_POLARITY_INVERSED"
            /\ ~pwm_call.state.enabled) =>
               PwmChannelZeroed /\ pwm_call.out.ret = 0
        /\ (/\ pwm_call.state.polarity # "PWM_POLARITY_INVERSED"
            /\ pwm_call.state.enabled
            /\ PwmHlperiodAbovePeriod) =>
               PwmWroteNothing /\ pwm_call.out.ret = -EINVAL
        /\ PwmOthersKept

\* a disable request with inversed polarity returns while the addressed
\* channel and another channel are programmed
C34_Witness ==
    /\ PwmReturning
    /\ ~pwm_call.state.enabled
    /\ pwm_call.state.polarity = "PWM_POLARITY_INVERSED"
    /\ pwm_regs[pwm_call.hwpwm].period # u64(0)
    /\ \E ch \in PwmChannels \ {pwm_call.hwpwm} :
          pwm_regs[ch].period # u64(0)

(***************************************************************************)
(* The divisor of the solver's do_div (checked under SpecPd).              *)
(***************************************************************************)
\* the pair drawn passes the stability check on FREF/REFDIV and the range
\* check on FOUTVCO, and the lookup for it has succeeded
PdPairLookedUp ==
    /\ pd_pc = "looked_up"
    /\ pll_refdiv_ok(pd_in.prate, pd_in.refdiv)
    /\ pll_vco_ok(u64_div(u64_mul(pd_in.prate, pd_in.fbdiv), pd_in.refdiv))
    /\ pd_out.ret = 0

\* C35: for every (refdiv, fbdiv) that passes the checks and every target
\* rate in range, the pair the lookup produced has postdiv1 * postdiv2 >= 1
\* when the solver is about to divide by it.
C35_DivisorAtLeastOne ==
    PdPairLookedUp => pd_out.postdiv1 * pd_out.postdiv2 >= 1

(***************************************************************************)
(* round_rate, the solver and recalc_rate agree (checked under SpecRr).    *)
(***************************************************************************)
\* the solver returned 0 for the rate requested
RrSolved == rr_pc \in {"rounded", "set", "read"} /\ rr_out.ret = 0

\* C36: when the solver succeeds, round_rate returns best.freq, and
\* recalc_rate after set_rate for the same rate and parent reports the same
\* value.
C36_RoundRecalcAgree ==
    /\ RrSolved => rr_out.round = rr_out.best.freq
    /\ (RrSolved /\ rr_pc = "read") => rr_out.recalc = rr_out.round

\* a rate was set and read back whose setting has both post-dividers above
\* 1 and a vco that refdiv does not divide
C36_Witness ==
    /\ RrSolved
    /\ rr_pc = "read"
    /\ rr_out.best.postdiv2 > 1
    /\ rr_out.best.refdiv > 1
    /\ rr_reg \notin ClkCtrlAtStart

(***************************************************************************)
(* The handler and slots without a mapping (checked under SpecMsiIrq).     *)
(***************************************************************************)
\* the handler's step calls generic_handle_irq: the event it adds to the log
DispRaisedNow ==
    /\ Len(disp_log') = Len(disp_log) + 1
    /\ disp_log'[Len(disp_log')].ev \in {"raise", "fallback"}

\* C37: in both passes the handler calls generic_handle_irq only for slots
\* that have a mapping at that moment, whatever the entries of the slots
\* without one hold.
C37_RaisesOnlyMappedSlots ==
    [][ DispRaisedNow =>
            irq_find_mapping(msi_irq_data, disp_log'[Len(disp_log')].i) # 0
      ]_vars

(***************************************************************************)
(* Delivery of MSIs that arrive while the handler runs (checked under      *)
(* SpecLmFair).                                                            *)
(***************************************************************************)
\* the device has written to the entry of slot s, the slot being mapped
LmWritten(s) ==
    lm_stamp[s] >= 0 /\ irq_find_mapping(msi_irq_data, s) # 0

\* the handler has called generic_handle_irq for slot s after that write
LmRaised(s) == lm_stamp[s] >= 0 /\ LmRaisesAfter(s, lm_stamp[s]) # {}

\* C38: if the device writes to an allocated slot's entry at any point, the
\* slot's virtual IRQ is raised after that write, by the first pass or by
\* the second pass of a run of the handler.
C38_NoMsiLost == \A s \in LmSlots : LmWritten(s) ~> LmRaised(s)

(***************************************************************************)
(* The mux after an aborted rate change (checked under SpecMux).           *)
(***************************************************************************)
\* C39: after a notification sequence that begins with PRE_RATE_CHANGE and
\* ends with POST_RATE_CHANGE or ABORT_RATE_CHANGE, a writable mux is on the
\* parent it had before the PRE_RATE_CHANGE.
C39_MuxRestoredAfterPostOrAbort ==
    \A m \in MuxShifts :
        mux_clk[m].pc \in {"post", "abort"} =>
            clk_mux_get_parent(mux_reg, m) = mux_clk[m].before

====
